---- MODULE Spec2Model ----
(***************************************************************************)
(* Model of the WinOps-Guard event-log collector (src/main.go): the main   *)
(* entry point, normalizeLogName, fetchEvents with its batch loop,         *)
(* parseEvent with the two-phase render/format protocols, the publisher    *)
(* metadata cache and the native handle table of wevtapi.dll; and of the   *)
(* mains of the command-line tools that read JSON on standard input        *)
(* (src/cmd/winopsguard-triage, -remediate-update, -remediate-iis).        *)
(* Further: the agent binary's enqueue-and-send tail with                  *)
(* Client.SendWithRetry and the queue, and summarizer.BuildPayload with    *)
(* trimToSize.                                                             *)
(***************************************************************************)
EXTENDS Integers, Sequences, FiniteSets, TLC

VARIABLES
    pc,          \* position of the collector process in main / fetchEvents
    logName,     \* -log flag value, a sequence of characters
    provider,    \* -provider flag value, a sequence of characters
    minutesIn,   \* -minutes flag value
    maxIn,       \* -max flag value
    profile,     \* the batch sizes the subsystem's EvtNext may return in this run
    period,      \* the log's provider pattern: event h comes from provider h % period
    channel,     \* result of normalizeLogName
    queryStr,    \* the query expression handed to EvtQuery
    ms,          \* fetchEvents local: the lookback window in milliseconds
    tick,        \* parity of the number of EvtNext calls made
    minutes,     \* fetchEvents local, after normalisation
    maxEvents,   \* fetchEvents local, after normalisation
    hQuery,      \* the query (session) handle, 0 when none
    results,     \* fetchEvents accumulator
    pending,     \* handles of the current batch not yet ranged over
    cache,       \* publisherCache.handles: provider name -> metadata handle
    err,         \* the error fetchEvents / normalizeLogName returns, NoErr when nil
    panicked,    \* TRUE when a run-time panic unwinds fetchEvents
    returned,    \* the record list fetchEvents returned (<<>> for nil)
    exitCode,    \* process exit status, -1 while running
    openH,       \* native handle table: handles open in wevtapi
    closeLog,    \* sequence of handles passed to EvtClose, in call order
    calls,       \* number of calls made to each native procedure
    nextEvt,     \* number of result handles handed out so far
    nextMeta,    \* number of metadata handles handed out so far
    exhausted,   \* TRUE once EvtNext reported ERROR_NO_MORE_ITEMS
    level,       \* input of the mapLevel check
    levelText,   \* output of the mapLevel check
    wpc,         \* concurrent cache users: position of each worker
    wprov,       \* concurrent cache users: provider each worker asks for
    wres,        \* concurrent cache users: what get returned to each worker
    mu,          \* publisherCache.mu: the holder, or Free
    closeIter,   \* providers the closing worker's range loop has still to visit
    tool,        \* command-line tools: which of the three binaries runs
    cpc,         \* command-line tools: position in main
    stdin,       \* command-line tools: the part of standard input still unread
    data,        \* command-line tools: what readStdinLimited returned
    triage,      \* command-line tools: the parsed triage document
    answer,      \* command-line tools: what askApproval read
    result,      \* command-line tools: the audit record main is filling in
    stdout,      \* command-line tools: the writes of JSON objects to stdout
    ran,         \* command-line tools: the commands handed to exec, in order
    status,      \* command-line tools: process exit status, -1 while running
    outcome,     \* two-phase protocols: what the native calls answer for one event
    ppc,         \* two-phase protocols: which protocol runs next
    xmlRes,      \* two-phase protocols: what renderEventXML returned
    msgRes,      \* two-phase protocols: what formatMessage returned
    apc,         \* agent: position of main in cmd/winopsguard
    spc,         \* agent: position of the SendWithRetry goroutine
    maxRetry,    \* agent: SendWithRetry's maxRetry argument
    retry,       \* agent: SendWithRetry's loop counter i
    sends,       \* agent: the results of the doSend calls made, in order
    queue,       \* agent: the request ids that have a file in the queue directory
    marks,       \* agent: number of Queue.MarkSent calls made
    req,         \* summarizer: the request BuildPayload is trimming
    maxBytes,    \* summarizer: the size budget
    recentLimit, \* summarizer: trimToSize local
    messageLimit,\* summarizer: trimToSize local
    tpc,         \* summarizer: position in BuildPayload / trimToSize
    checks,      \* summarizer: the (recentLimit, messageLimit) pairs of the size checks made
    measured     \* summarizer: the serialized sizes the size checks measured

vars == <<pc, logName, provider, minutesIn, maxIn, profile, period, channel,
          queryStr, ms, tick, minutes, maxEvents, hQuery, results, pending, cache,
          err, panicked, returned, exitCode, openH, closeLog, calls, nextEvt,
          nextMeta, exhausted, level, levelText, wpc, wprov, wres, mu, closeIter,
          tool, cpc, stdin, data, triage, answer, result, stdout, ran, status,
          outcome, ppc, xmlRes, msgRes, apc, spc, maxRetry, retry, sends, queue,
          marks, req, maxBytes, recentLimit, messageLimit, tpc, checks, measured>>

runVars == <<pc, logName, provider, minutesIn, maxIn, profile, period, channel,
             queryStr, ms, tick, minutes, maxEvents, hQuery, results, pending, err,
             panicked, returned, exitCode, nextEvt, exhausted>>

nativeVars == <<cache, openH, closeLog, calls, nextMeta>>

levelVars == <<level, levelText>>

workerVars == <<wpc, wprov, wres, mu, closeIter>>

cliVars == <<tool, cpc, stdin, data, triage, answer, result, stdout, ran, status>>

protoVars == <<outcome, ppc, xmlRes, msgRes>>

agentVars == <<apc, spc, maxRetry, retry, sends, queue, marks>>

trimVars == <<req, maxBytes, recentLimit, messageLimit, tpc, checks, measured>>

extVars == <<protoVars, agentVars, trimVars>>

----------------------------------------------------------------------------
(* Program constants *)

defaultLookbackMinutes == 10
defaultMaxEvents == 256
evtNextBatchSize == 16

(* Bounds of the model *)

\* number of EvtNext calls the subsystem answers with a batch in one run
MaxNext == 17
\* levels 0..MaxLevel are tried by the mapLevel check, next to the uint32 extremes
MaxLevel == 100
\* number of workers sharing one publisherCache in the concurrent check
NumWorkers == 3

NoErr == "nil"
Free == -1

----------------------------------------------------------------------------
(* Strings are sequences of one-character strings. *)

UpperChars == <<"A","B","C","D","E","F","G","H","I","J","K","L","M",
                "N","O","P","Q","R","S","T","U","V","W","X","Y","Z">>
LowerChars == <<"a","b","c","d","e","f","g","h","i","j","k","l","m",
                "n","o","p","q","r","s","t","u","v","w","x","y","z">>

\* unicode.IsSpace restricted to the ASCII white space
IsSpace(c) == c \in {" ", "\t", "\n", "\r", "\f"}

ToLowerChar(c) ==
    IF \E i \in 1..26 : UpperChars[i] = c
    THEN LowerChars[CHOOSE i \in 1..26 : UpperChars[i] = c]
    ELSE c

ToLower(s) == [i \in 1..Len(s) |-> ToLowerChar(s[i])]

RECURSIVE TrimLeft(_)
TrimLeft(s) == IF s # <<>> /\ IsSpace(Head(s)) THEN TrimLeft(Tail(s)) ELSE s

RECURSIVE TrimRight(_)
TrimRight(s) ==
    IF s # <<>> /\ IsSpace(s[Len(s)]) THEN TrimRight(SubSeq(s, 1, Len(s) - 1)) ELSE s

TrimSpace(s) == TrimRight(TrimLeft(s))

sApplication == <<"a","p","p","l","i","c","a","t","i","o","n">>
sSystem == <<"s","y","s","t","e","m">>
sSetup == <<"s","e","t","u","p">>

\* normalizeLogName with the default case falling back to Application
normalizeLogNameLax(name) ==
    LET key == ToLower(TrimSpace(name)) IN
    IF key = sSystem THEN [channel |-> "System", err |-> NoErr]
    ELSE IF key = sSetup THEN [channel |-> "Setup", err |-> NoErr]
    ELSE [channel |-> "Application", err |-> NoErr]

\* normalizeLogName: the canonical channel and the error
normalizeLogName(name) ==
    LET key == ToLower(TrimSpace(name)) IN
    IF key = sApplication \/ key = <<>> THEN [channel |-> "Application", err |-> NoErr]
    ELSE IF key = sSystem THEN [channel |-> "System", err |-> NoErr]
    ELSE IF key = sSetup THEN [channel |-> "Setup", err |-> NoErr]
    ELSE [channel |-> "", err |-> "unsupported log"]

\* mapLevel with the table shifted by one
mapLevelShifted(l) ==
    CASE l = 1 -> "Error"
      [] l = 2 -> "Warning"
      [] l = 3 -> "Information"
      [] OTHER -> "Unknown"

\* mapLevel over uint32
mapLevel(l) ==
    CASE l = 2 -> "Error"
      [] l = 3 -> "Warning"
      [] l = 4 -> "Information"
      [] OTHER -> "Unknown"


----------------------------------------------------------------------------
(* Native handles.  A handle is a record; NoHandle is the zero handle. *)

\* name is the publisher a metadata handle was opened for, empty otherwise
NoHandle == [kind |-> "null", n |-> 0, name |-> <<>>]
QueryHandle == [kind |-> "query", n |-> 1, name |-> <<>>]
MetaHandle(k, name) == [kind |-> "meta", n |-> k, name |-> name]
EventHandle(i) == [kind |-> "event", n |-> i, name |-> <<>>]

NoCalls == [EvtQuery |-> 0, EvtNext |-> 0, EvtRender |-> 0,
            EvtOpenPublisherMetadata |-> 0, EvtFormatMessage |-> 0, EvtClose |-> 0]

Range(q) == {q[i] : i \in 1..Len(q)}

\* U+0000, which windows.UTF16PtrFromString rejects
NUL == "NUL"
HasNUL(s) == \E i \in 1..Len(s) : s[i] = NUL

\* provider names the synthetic log uses
Providers == << <<"P","1">>, <<"P","2">> >>

\* what the subsystem holds for result handle h: the fields of its rendered XML
EventXML(h, per) ==
    [Provider |-> Providers[(h.n % per) + 1],
     EventID  |-> h.n,
     Level    |-> h.n % 6]

\* outcome of a size probe: r is the call's return value, errno its error,
\* used the required size it reports (0, or 1 for any positive size)
ProbeResults ==
    { [r |-> 0, errno |-> "ERROR_INSUFFICIENT_BUFFER", used |-> 1],
      [r |-> 0, errno |-> "ERROR_INSUFFICIENT_BUFFER", used |-> 0],
      [r |-> 0, errno |-> "ERROR_INVALID_HANDLE", used |-> 0],
      [r |-> 1, errno |-> "ERROR_SUCCESS", used |-> 1],
      [r |-> 1, errno |-> "ERROR_SUCCESS", used |-> 0] }

\* how the native calls answer for one event when every call succeeds
OkEv == [rProbe |-> [r |-> 0, errno |-> "ERROR_INSUFFICIENT_BUFFER", used |-> 1],
         rFill  |-> TRUE,
         xml    |-> TRUE,
         time   |-> TRUE,
         open   |-> TRUE,
         fProbe |-> [r |-> 0, errno |-> "ERROR_INSUFFICIENT_BUFFER", used |-> 1],
         fFill  |-> TRUE]

\* the answers tried for one event: all succeed, or one call or parse deviates
Outcomes ==
    {OkEv}
    \cup {[OkEv EXCEPT !.rProbe = p] : p \in ProbeResults}
    \cup {[OkEv EXCEPT !.fProbe = p] : p \in ProbeResults}
    \cup {[OkEv EXCEPT !.rFill = FALSE], [OkEv EXCEPT !.xml = FALSE],
          [OkEv EXCEPT !.time = FALSE], [OkEv EXCEPT !.open = FALSE],
          [OkEv EXCEPT !.fFill = FALSE]}

\* renderEventXML, lines 275-309: the error, whether &buffer[0] panics, the
\* EvtRender calls made, the length of the buffer handed to the fill call
\* (-1 when the fill call is not made) and whether text is returned
renderEventXML(o) ==
    IF o.rProbe.r = 0 /\ o.rProbe.errno # "ERROR_INSUFFICIENT_BUFFER"
    THEN [err |-> "EvtRender(size)", panic |-> FALSE, n |-> 1, size |-> -1, text |-> FALSE]
    ELSE IF o.rProbe.used = 0
    THEN [err |-> NoErr, panic |-> TRUE, n |-> 1, size |-> -1, text |-> FALSE]
    ELSE IF ~o.rFill
    THEN [err |-> "EvtRender", panic |-> FALSE, n |-> 2, size |-> o.rProbe.used,
          text |-> FALSE]
    ELSE [err |-> NoErr, panic |-> FALSE, n |-> 2, size |-> o.rProbe.used, text |-> TRUE]

\* formatMessage, lines 311-346: the error, whether &buf[0] panics, the
\* EvtFormatMessage calls made, the length of the buffer handed to the fill
\* call (-1 when the fill call is not made) and whether text is returned
formatMessage(o) ==
    IF o.fProbe.r = 0 /\ o.fProbe.errno # "ERROR_INSUFFICIENT_BUFFER"
    THEN [err |-> "EvtFormatMessage(size)", panic |-> FALSE, n |-> 1, size |-> -1,
          text |-> FALSE]
    ELSE IF o.fProbe.used = 0
    THEN [err |-> NoErr, panic |-> TRUE, n |-> 1, size |-> -1, text |-> FALSE]
    ELSE IF ~o.fFill
    THEN [err |-> "EvtFormatMessage", panic |-> FALSE, n |-> 2, size |-> o.fProbe.used,
          text |-> FALSE]
    ELSE [err |-> NoErr, panic |-> FALSE, n |-> 2, size |-> o.fProbe.used, text |-> TRUE]

\* publisherCache.get that opens the handle but never stores it in the map
cacheGetNoStore(c, name, k, openOk) ==
    IF name \in DOMAIN c
    THEN [h |-> c[name], err |-> NoErr, cache |-> c, opened |-> NoHandle, n |-> 0]
    ELSE IF HasNUL(name)
    THEN [h |-> NoHandle, err |-> "publisher UTF16", cache |-> c, opened |-> NoHandle, n |-> 0]
    ELSE IF ~openOk
    THEN [h |-> NoHandle, err |-> "EvtOpenPublisherMetadata", cache |-> c,
          opened |-> NoHandle, n |-> 1]
    ELSE [h |-> MetaHandle(k + 1, name), err |-> NoErr, cache |-> c,
          opened |-> MetaHandle(k + 1, name), n |-> 1]

\* publisherCache.get run without contention: c is the map, k the number of
\* metadata handles handed out so far, openOk the answer of the native open
cacheGet(c, name, k, openOk) ==
    IF name \in DOMAIN c
    THEN [h |-> c[name], err |-> NoErr, cache |-> c, opened |-> NoHandle, n |-> 0]
    ELSE IF HasNUL(name)
    THEN [h |-> NoHandle, err |-> "publisher UTF16", cache |-> c, opened |-> NoHandle, n |-> 0]
    ELSE IF ~openOk
    THEN [h |-> NoHandle, err |-> "EvtOpenPublisherMetadata", cache |-> c,
          opened |-> NoHandle, n |-> 1]
    ELSE [h |-> MetaHandle(k + 1, name), err |-> NoErr,
          cache |-> [x \in DOMAIN c \cup {name} |->
                        IF x = name THEN MetaHandle(k + 1, name) ELSE c[x]],
          opened |-> MetaHandle(k + 1, name), n |-> 1]

\* no protocol has run
NoText == [err |-> NoErr, panic |-> FALSE, n |-> 0, size |-> -1, text |-> FALSE]

NoRecord == [EventID |-> 0, Level |-> "", Source |-> <<>>]

\* parseEvent for result handle h with cache map c
parseEvent(h, c, k, per, o) ==
    LET rx == renderEventXML(o)
        parsed == EventXML(h, per)
        fail(e, nr, no, nf, cc, op) ==
            [rec |-> NoRecord, err |-> e, panic |-> FALSE, cache |-> cc, opened |-> op,
             nRender |-> nr, nOpen |-> no, nFormat |-> nf]
        boom(nr, no, nf, cc, op) ==
            [rec |-> NoRecord, err |-> NoErr, panic |-> TRUE, cache |-> cc, opened |-> op,
             nRender |-> nr, nOpen |-> no, nFormat |-> nf]
    IN
    IF rx.panic THEN boom(rx.n, 0, 0, c, NoHandle)
    ELSE IF rx.err # NoErr THEN fail(rx.err, rx.n, 0, 0, c, NoHandle)
    ELSE IF ~o.xml THEN fail("parse XML", rx.n, 0, 0, c, NoHandle)
    ELSE IF ~o.time THEN fail("parse time", rx.n, 0, 0, c, NoHandle)
    ELSE
      LET g == cacheGet(c, parsed.Provider, k, o.open) IN
      IF g.err # NoErr THEN fail(g.err, rx.n, g.n, 0, g.cache, g.opened)
      ELSE
        LET fm == formatMessage(o) IN
        IF fm.panic THEN boom(rx.n, g.n, fm.n, g.cache, g.opened)
        ELSE IF fm.err # NoErr THEN fail(fm.err, rx.n, g.n, fm.n, g.cache, g.opened)
        ELSE [rec |-> [EventID |-> parsed.EventID,
                       Level |-> mapLevel(parsed.Level),
                       Source |-> parsed.Provider],
              err |-> NoErr, panic |-> FALSE, cache |-> g.cache, opened |-> g.opened,
              nRender |-> rx.n, nOpen |-> g.n, nFormat |-> fm.n]


----------------------------------------------------------------------------
(* The native handle table *)

\* evtCloseHandle making the native close call twice
evtCloseHandleTwice(h, t) ==
    IF h = NoHandle THEN t
    ELSE [openH |-> t.openH \ {h}, closeLog |-> t.closeLog \o <<h, h>>, n |-> t.n + 2]

\* evtCloseHandle on table t = [openH, closeLog, n]: the zero handle is skipped
evtCloseHandle(h, t) ==
    IF h = NoHandle THEN t
    ELSE [openH |-> t.openH \ {h}, closeLog |-> Append(t.closeLog, h), n |-> t.n + 1]

\* evtCloseHandle applied to the handles of hs in order
RECURSIVE closeEach(_, _)
closeEach(hs, t) ==
    IF hs = <<>> THEN t ELSE closeEach(Tail(hs), evtCloseHandle(Head(hs), t))

\* the orders in which a range over a map with key set S may visit the keys
Orders(S) ==
    {q \in [1..Cardinality(S) -> S] : \A i, j \in 1..Cardinality(S) : q[i] = q[j] => i = j}

\* publisherCache.close emptying the map without releasing the handles
cacheCloseNone(c, q, t) == t

\* publisherCache.close without contention, visiting the keys in order q
cacheClose(c, q, t) == closeEach([i \in 1..Len(q) |-> c[q[i]]], t)

EmptyCache == [x \in {} |-> NoHandle]

\* number of times handle h was passed to EvtClose
CloseCount(h) == Cardinality({i \in 1..Len(closeLog) : closeLog[i] = h})

----------------------------------------------------------------------------
(* Inputs of a run *)

LogNames ==
    { sApplication,
      <<"A","p","p","l","i","c","a","t","i","o","n">>,
      <<"S","Y","S","T","E","M">>,
      <<" ","s","y","s","t","e","m"," ">>,
      <<"S","e","t","u","p","\t">>,
      <<>>,
      <<" "," ">>,
      <<"s","e","c","u","r","i","t","y">>,
      <<"a","p","p">>,
      <<"s","y","s"," ","t","e","m">>,
      <<"s","e","t","u","p","x">> }

ProviderArgs ==
    { <<>>, <<"P","1">>, <<" ","P","2">>, <<"a","\"","b">>, <<"P",NUL>> }

ShortBatches == {0, 1, 2, 3}
FullBatches == {evtNextBatchSize - 1, evtNextBatchSize}
ExactBatches == {evtNextBatchSize}
Profiles == {ShortBatches, FullBatches}

\* the largest and smallest value of Go's int where int is 32 bits wide
\* (GOARCH=386, arm); a 64-bit int wraps the same way at 2^63
MaxInt == 2^30 + (2^30 - 1)

\* a * n in Go's int for a constant 0 <= n < 2^15: two's complement, wraps
\* silently; computed on the two 16-bit halves of a
mulInt(a, n) ==
    LET lo == (a % 65536) * n
        top == (((a \div 65536) * n) + (lo \div 65536)) % 65536
    IN (IF top >= 32768 THEN top - 65536 ELSE top) * 65536 + (lo % 65536)

\* fetchEvents line 151: ms := minutes * 60 * 1000
lookbackMs(m) == mulInt(mulInt(m, 60), 1000)

\* -minutes values: defaults, small windows, and the values around the
\* largest window whose millisecond count fits Go's int
LookbackArgs == {-1, 0, 1, 10, MaxInt \div 60000, (MaxInt \div 60000) + 1}

BaseCase == [log |-> sApplication, prov |-> <<>>, min |-> 5, max |-> 4,
             profile |-> ShortBatches, period |-> 2]

\* the runs explored: the base case with one group of inputs varied at a time
InputCases ==
    {[BaseCase EXCEPT !.log = l] : l \in LogNames}
    \cup {[BaseCase EXCEPT !.prov = p] : p \in ProviderArgs}
    \cup {[BaseCase EXCEPT !.min = m] : m \in LookbackArgs}
    \cup {[BaseCase EXCEPT !.max = m, !.profile = f, !.period = q] :
             m \in {1, 2, 4, 5}, f \in Profiles, q \in 1..Len(Providers)}
    \cup {[BaseCase EXCEPT !.max = 0, !.profile = FullBatches],
          [BaseCase EXCEPT !.max = -1, !.profile = ExactBatches, !.period = 1]}

Workers == 1..NumWorkers

\* the worker that runs publisherCache.close
Closer == 0

Procs == Workers \cup {Closer}

----------------------------------------------------------------------------
(* The command-line tools that read a JSON document on standard input:     *)
(* winopsguard-triage, winopsguard-remediate-update and                     *)
(* winopsguard-remediate-iis (src/cmd/*/main.go).                           *)

maxInputBytes == 5000000
defaultMaxBytes == 5000000

\* strings.Contains
Contains(s, sub) ==
    \E i \in 0..(Len(s) - Len(sub)) : SubSeq(s, i + 1, i + Len(sub)) = sub

\* the keywords of isWindowsUpdateIssue
updateKeywords ==
    {<<"w","i","n","d","o","w","s"," ","u","p","d","a","t","e">>,
     <<"w","i","n","d","o","w","s","u","p","d","a","t","e","c","l","i","e","n","t">>,
     <<"w","i","n","d","o","w","s","u","p","d","a","t","e">>,
     <<"0","x","8","0","0","f">>,
     <<"c","b","s">>,
     <<"d","i","s","m">>,
     <<"s","f","c">>}

\* the keywords of isIISIssue: the summary is tested against all of them,
\* the signals against the first three
iisSignalKeywords ==
    {<<"i","i","s">>,
     <<"w","3","s","v","c">>,
     <<"w","o","r","l","d"," ","w","i","d","e"," ","w","e","b">>}
iisSummaryKeywords ==
    iisSignalKeywords
    \cup {<<"a","p","p"," ","p","o","o","l">>,
          <<"a","p","p","l","i","c","a","t","i","o","n"," ","p","o","o","l">>}

\* the triage document as the remediation tools decode it (triageInput):
\* the string fields that isWindowsUpdateIssue, isIISIssue and chooseAction read
NoTriage ==
    [Summary |-> <<>>, RootCause |-> <<>>, Tags |-> <<>>, Signals |-> <<>>,
     Actions |-> <<>>, RecommendedAction |-> <<>>, ExactCommand |-> <<>>,
     MissingKBs |-> <<>>]

\* triage documents tried
TriageDocs ==
    { NoTriage,
      [NoTriage EXCEPT !.Summary = <<"W","i","n","d","o","w","s"," ","U","p","d","a","t","e"," ","f","a","i","l","e","d">>],
      [NoTriage EXCEPT !.Summary = <<"d","i","s","k"," ","f","u","l","l">>,
                       !.MissingKBs = <<<<"K","B","5">>>>],
      [NoTriage EXCEPT !.Summary = <<"I","I","S"," ","a","p","p"," ","p","o","o","l"," ","c","r","a","s","h","e","d">>],
      [NoTriage EXCEPT !.RootCause = <<"C","B","S"," ","s","t","o","r","e"," ","c","o","r","r","u","p","t">>,
                       !.RecommendedAction = <<"s","f","c","_","s","c","a","n","n","o","w">>],
      [NoTriage EXCEPT !.Tags = <<<<"u","p","d","a","t","e">>>>,
                       !.ExactCommand = <<"d","e","l"," ","/","q"," ","c",":"," ","&"," ","s","f","c">>],
      [NoTriage EXCEPT !.RecommendedAction = <<" ","R","e","s","e","t"," ","W","i","n","d","o","w","s"," ","U","p","d","a","t","e"," ","C","a","c","h","e"," ">>],
      [NoTriage EXCEPT !.Summary = <<"e","r","r","o","r"," ","0","x","8","0","0","f","0","9","2","2">>,
                       !.Actions = <<<<" ">>,<<"c","l","e","a","r"," ","u","p","d","a","t","e"," ","c","a","c","h","e"," ","f","i","l","e","s">>>>],
      [NoTriage EXCEPT !.RecommendedAction = <<"m","a","n","u","a","l","_","c","h","e","c","k">>,
                       !.ExactCommand = <<"D","I","S","M"," ","/","O","n","l","i","n","e"," ","/","R","e","s","t","o","r","e","H","e","a","l","t","h">>],
      [NoTriage EXCEPT !.Summary = <<"d","i","s","m"," ","r","e","p","o","r","t","e","d"," ","e","r","r","o","r","s">>,
                       !.RecommendedAction = <<"m","a","n","u","a","l","_","c","h","e","c","k">>],
      [NoTriage EXCEPT !.Signals = <<<<"W","3","S","V","C"," ","s","t","o","p","p","e","d">>>>] }

\* the decoded document of one stretch of standard input: kind "object" is
\* one JSON object, "trailing" a JSON object followed by other text,
\* "invalid" text that does not start with a JSON value, "blank" white
\* space only
NoDoc == [kind |-> "blank", t |-> NoTriage]

NoAnswer == [line |-> <<>>, err |-> "unread"]

\* remediationResult / result: the fields of the audit record that main sets
NoResult ==
    [Action |-> "", Approved |-> FALSE, Executed |-> FALSE, ExitCode |-> 0,
     Error |-> "", Command |-> ""]

\* commandSpec
NoSpec == [name |-> "", exe |-> "", args |-> <<>>]

\* readStdinLimited returning before the last byte of the stream is taken
readStdinLimitedShort(seg, limit, dflt) ==
    LET lim == IF limit <= 0 THEN dflt ELSE limit
        got == IF seg.len <= lim + 1 THEN seg.len ELSE lim + 1
    IN
    IF seg.len <= lim /\ seg.err = "other"
    THEN [err |-> "read stdin", doc |-> NoDoc, got |-> got]
    ELSE IF got > lim
    THEN [err |-> "stdin exceeds limit", doc |-> NoDoc, got |-> got]
    ELSE IF got = 0 \/ seg.doc.kind = "blank"
    THEN [err |-> "stdin is empty", doc |-> NoDoc, got |-> got]
    ELSE [err |-> NoErr, doc |-> seg.doc, got |-> got - 1]

\* readStdinLimited, remediate-update lines 154-170 (the same function in
\* remediate-iis lines 107-123 and triage lines 95-111): the bytes taken
\* from the stream and the error
readStdinLimited(seg, limit, dflt) ==
    LET lim == IF limit <= 0 THEN dflt ELSE limit
        got == IF seg.len <= lim + 1 THEN seg.len ELSE lim + 1
    IN
    IF seg.len <= lim /\ seg.err = "other"
    THEN [err |-> "read stdin", doc |-> NoDoc, got |-> got]
    ELSE IF got > lim
    THEN [err |-> "stdin exceeds limit", doc |-> NoDoc, got |-> got]
    ELSE IF got = 0 \/ seg.doc.kind = "blank"
    THEN [err |-> "stdin is empty", doc |-> NoDoc, got |-> got]
    ELSE [err |-> NoErr, doc |-> seg.doc, got |-> got]

\* parseTriage, remediate-update lines 177-184 and remediate-iis lines
\* 125-132: json.Decoder.Decode reads the first JSON value and stops
parseTriage(doc) ==
    IF doc.kind \in {"object", "trailing"}
    THEN [err |-> NoErr, t |-> doc.t]
    ELSE [err |-> "parse triage JSON", t |-> NoTriage]

\* normalizeInput, triage lines 120-132: json.Unmarshal accepts one JSON
\* value and nothing after it
normalizeInput(doc) ==
    IF doc.kind = "blank" THEN [err |-> "stdin is empty"]
    ELSE IF doc.kind = "object" THEN [err |-> NoErr]
    ELSE [err |-> "stdin must be JSON"]

NonBlank(s) == TrimSpace(s) # <<>>

\* collectStrings, remediate-update lines 211-233
collectStrings(t) ==
    SelectSeq(<<t.Summary, t.RootCause>> \o t.Tags \o t.Signals \o t.Actions
                  \o <<t.RecommendedAction, t.ExactCommand>>,
              NonBlank)

\* isWindowsUpdateIssue, remediate-update lines 186-209
isWindowsUpdateIssue(t) ==
    LET cand == collectStrings(t) IN
    IF \E i \in 1..Len(cand) : \E kw \in updateKeywords : Contains(ToLower(cand[i]), kw)
    THEN [ok |-> TRUE, reason |-> "windows update signals detected"]
    ELSE IF Len(t.MissingKBs) > 0
    THEN [ok |-> TRUE, reason |-> "missing_kbs present in triage"]
    ELSE [ok |-> FALSE, reason |-> "no windows update signals detected"]

\* isIISIssue, remediate-iis lines 134-166
isIISIssue(t) ==
    \/ \E kw \in iisSummaryKeywords : Contains(ToLower(t.Summary), kw)
    \/ \E i \in 1..Len(t.Signals) :
          \E kw \in iisSignalKeywords : Contains(ToLower(t.Signals[i]), kw)

\* the three command specs of chooseAction, remediate-update lines 255-268
\* (the script of reset_update_cache is one fixed string, shortened here)
dism ==
    [name |-> "dism_restorehealth", exe |-> "dism.exe",
     args |-> <<"/online", "/cleanup-image", "/restorehealth">>]
sfc == [name |-> "sfc_scannow", exe |-> "sfc.exe", args |-> <<"/scannow">>]
cacheReset ==
    [name |-> "reset_update_cache", exe |-> "powershell.exe",
     args |-> <<"-NoProfile", "-NonInteractive", "-Command",
                "$ErrorActionPreference=\"Stop\"; Stop-Service ...; Rename-Item ...; Start-Service ...; Write-Output ...;">>]

\* the switch of chooseAction on one choice, remediate-update lines 285-303
matchChoice(choice) ==
    LET normalized == ToLower(TrimSpace(choice)) IN
    IF normalized \in
          {<<"d","i","s","m","_","r","e","s","t","o","r","e","_","h","e","a","l","t","h">>,
           <<"d","i","s","m","_","r","e","s","t","o","r","e","h","e","a","l","t","h">>}
    THEN [spec |-> dism, reason |-> "recommended action requested DISM"]
    ELSE IF normalized = <<"s","f","c","_","s","c","a","n","n","o","w">>
    THEN [spec |-> sfc, reason |-> "recommended action requested SFC"]
    ELSE IF normalized \in
          {<<"r","e","s","e","t","_","u","p","d","a","t","e","_","c","a","c","h","e">>,
           <<"c","l","e","a","r","_","u","p","d","a","t","e","_","c","a","c","h","e">>,
           <<"r","e","s","e","t"," ","w","i","n","d","o","w","s"," ","u","p","d","a","t","e"," ","c","a","c","h","e">>}
    THEN [spec |-> cacheReset, reason |-> "recommended action requested cache reset"]
    ELSE IF /\ Contains(normalized, <<"d","i","s","m">>)
            /\ Contains(normalized, <<"r","e","s","t","o","r","e","h","e","a","l","t","h">>)
    THEN [spec |-> dism, reason |-> "recommended action matched DISM"]
    ELSE IF Contains(normalized, <<"s","f","c">>)
    THEN [spec |-> sfc, reason |-> "recommended action matched SFC"]
    ELSE IF Contains(normalized, <<"c","a","c","h","e">>) /\ Contains(normalized, <<"u","p","d","a","t","e">>)
    THEN [spec |-> cacheReset, reason |-> "recommended action matched cache reset"]
    ELSE [spec |-> NoSpec, reason |-> ""]

RECURSIVE firstMatch(_)
firstMatch(choices) ==
    IF choices = <<>> THEN [spec |-> NoSpec, reason |-> ""]
    ELSE IF matchChoice(Head(choices)).spec # NoSpec THEN matchChoice(Head(choices))
    ELSE firstMatch(Tail(choices))

\* chooseAction running the command the triage document spells out
chooseActionExact(t) ==
    IF NonBlank(t.ExactCommand)
    THEN [spec |-> [name |-> "exact_command", exe |-> "cmd.exe",
                    args |-> <<"/c", "recovery_plan.exact_command">>],
          reason |-> "exact command requested"]
    ELSE [spec |-> dism, reason |-> "default repair: DISM"]

\* chooseAction, remediate-update lines 254-311
chooseAction(t) ==
    LET choices == SelectSeq(<<t.RecommendedAction, t.ExactCommand>> \o t.Actions,
                             NonBlank)
        m == firstMatch(choices)
    IN
    IF m.spec # NoSpec THEN m
    ELSE IF Len(t.MissingKBs) > 0
    THEN [spec |-> dism, reason |-> "missing KBs detected; attempting repair via DISM"]
    ELSE [spec |-> dism, reason |-> "default repair: DISM"]

\* joinCommand, remediate-update lines 390-395
RECURSIVE joinArgs(_)
joinArgs(args) == IF args = <<>> THEN <<>> ELSE <<" ", Head(args)>> \o joinArgs(Tail(args))
joinCommand(spec) == <<spec.exe>> \o joinArgs(spec.args)

\* askApproval accepting every line that holds a y
askApprovalPrefix(seg) ==
    IF seg.err = "other" THEN [approved |-> FALSE, err |-> "read"]
    ELSE [approved |-> Contains(TrimSpace(ToLower(seg.line)), <<"y">>), err |-> NoErr]

\* askApproval, remediate-update lines 313-321 and remediate-iis lines
\* 168-176, on the line and error bufio's ReadString returned
askApproval(seg) ==
    IF seg.err = "other" THEN [approved |-> FALSE, err |-> "read"]
    ELSE [approved |-> (TrimSpace(ToLower(seg.line)) = <<"y","e","s">>
                        \/ TrimSpace(ToLower(seg.line)) = <<"y">>),
          err |-> NoErr]

\* how exec's cmd.Run can end: nil, an ExitError with the child's status,
\* the context deadline, or a failure to start the child
RunOutcomes ==
    {[err |-> "nil", code |-> 0], [err |-> "exit", code |-> 1],
     [err |-> "exit", code |-> 3010], [err |-> "timeout", code |-> 1],
     [err |-> "start", code |-> 0]}

\* executeCommand, remediate-update lines 334-374: the exit code and the
\* error text it reports
executeCommand(o) ==
    IF o.err = "nil" THEN [ExitCode |-> 0, Error |-> ""]
    ELSE IF o.err = "timeout" THEN [ExitCode |-> -1, Error |-> "timeout exceeded"]
    ELSE IF o.err = "exit" THEN [ExitCode |-> o.code, Error |-> "exit status"]
    ELSE [ExitCode |-> -1, Error |-> "exec"]

\* runIISReset, remediate-iis lines 185-204: there is no deadline
runIISReset(o) ==
    IF o.err = "nil" THEN [ExitCode |-> 0, Error |-> ""]
    ELSE IF o.err = "exit" THEN [ExitCode |-> o.code, Error |-> "exit status"]
    ELSE [ExitCode |-> -1, Error |-> "exec"]

\* one write of an audit record to stdout
Write(res, ok) == [rec |-> res, ok |-> ok]

\* outputResult reporting a run that did nothing as a failure
outputResultNoop(out, res, ok) ==
    [stdout |-> Append(out, Write(res, ok)),
     status |-> IF ok /\ res.Executed THEN 0 ELSE 2]

\* outputResult, remediate-update lines 376-383, followed by main's return:
\* a failing write ends the process with status 2
outputResult(out, res, ok) ==
    [stdout |-> Append(out, Write(res, ok)), status |-> IF ok THEN 0 ELSE 2]

\* output, remediate-iis lines 206-219, followed by main's return: the
\* error of Encode is dropped
output(out, res, ok) ==
    [stdout |-> Append(out, Write(res, ok)), status |-> 0]

\* exitFatal writing an audit record before it ends the process
exitFatalAudit(out) == [stdout |-> Append(out, Write(NoResult, TRUE)), status |-> 2]

\* exitFatal / exitErr: a message on stderr and os.Exit(2), remediate-update
\* lines 385-388 and triage lines 464-467
exitFatal(out) == [stdout |-> out, status |-> 2]

IdleCli ==
    /\ tool = [name |-> "none", maxBytes |-> 0]
    /\ cpc = "off"
    /\ stdin = <<>>
    /\ data = NoDoc
    /\ triage = NoTriage
    /\ answer = NoAnswer
    /\ result = NoResult
    /\ stdout = <<>>
    /\ ran = <<>>
    /\ status = -1

----------------------------------------------------------------------------

IdleLevel == level = 0 /\ levelText = ""

IdleWorkers ==
    /\ wpc = [w \in Procs |-> "off"]
    /\ wprov = [w \in Workers |-> <<>>]
    /\ wres = [w \in Workers |-> [h |-> NoHandle, err |-> NoErr]]
    /\ mu = Free
    /\ closeIter = {}

IdleProto == outcome = OkEv /\ ppc = "off" /\ xmlRes = NoText /\ msgRes = NoText

IdleAgent ==
    /\ apc = "off" /\ spc = "off" /\ maxRetry = 0 /\ retry = 0
    /\ sends = <<>> /\ queue = {} /\ marks = 0

IdleTrim ==
    /\ req = 0 /\ maxBytes = 0 /\ recentLimit = 0 /\ messageLimit = 0
    /\ tpc = "off" /\ checks = <<>> /\ measured = <<>>

IdleExt == IdleProto /\ IdleAgent /\ IdleTrim

IdleNative ==
    /\ cache = EmptyCache
    /\ openH = {}
    /\ closeLog = <<>>
    /\ calls = NoCalls
    /\ nextMeta = 0

Init ==
    /\ \E c \in InputCases :
          /\ logName = c.log
          /\ provider = c.prov
          /\ minutesIn = c.min
          /\ maxIn = c.max
          /\ profile = c.profile
          /\ period = c.period
    /\ pc = "main"
    /\ channel = ""
    /\ queryStr = <<>> /\ ms = 0 /\ tick = FALSE
    /\ minutes = 0
    /\ maxEvents = 0
    /\ hQuery = NoHandle
    /\ results = <<>>
    /\ pending = <<>>
    /\ err = NoErr
    /\ panicked = FALSE
    /\ returned = <<>>
    /\ exitCode = -1
    /\ nextEvt = 0
    /\ exhausted = FALSE
    /\ IdleNative
    /\ IdleExt
    /\ IdleLevel
    /\ IdleWorkers
    /\ IdleCli

----------------------------------------------------------------------------
(* main and fetchEvents *)

\* main, lines 109-113: the channel is validated before anything else
Normalize ==
    /\ pc = "main"
    /\ LET r == normalizeLogName(logName) IN
        IF r.err # NoErr
        THEN /\ err' = r.err
             /\ exitCode' = 2
             /\ pc' = "exited"
             /\ UNCHANGED channel
        ELSE /\ channel' = r.channel
             /\ pc' = "fetch"
             /\ UNCHANGED <<err, exitCode>>
    /\ UNCHANGED <<logName, provider, minutesIn, maxIn, profile, period, queryStr,
                   ms, tick, minutes, maxEvents, hQuery, results, pending, panicked, returned,
                   nextEvt, exhausted>>
    /\ UNCHANGED <<nativeVars, levelVars, workerVars, cliVars, extVars>>

\* fetchEvents lines 144-146
normMinutes(m) == IF m <= 0 THEN defaultLookbackMinutes ELSE m

\* the cap default substituted for negative values only
normMaxStrict(m) == IF m < 0 THEN defaultMaxEvents ELSE m

\* fetchEvents lines 147-149
normMax(m) == IF m <= 0 THEN defaultMaxEvents ELSE m

\* decimal digits of fmt's %d
DigitChars == <<"0","1","2","3","4","5","6","7","8","9">>

RECURSIVE Digits(_)
Digits(n) ==
    IF n < 0 THEN <<"-">> \o Digits(0 - n)
    ELSE IF n < 10 THEN <<DigitChars[n + 1]>>
    ELSE Digits(n \div 10) \o <<DigitChars[(n % 10) + 1]>>

\* strconv.Quote on one character: quote and backslash are escaped, control
\* characters are written as escape sequences, the rest is kept
QuoteChar(c) ==
    CASE c = "\"" -> <<"\\", "\"">>
      [] c = "\\" -> <<"\\", "\\">>
      [] c = "\t" -> <<"\\", "t">>
      [] c = "\n" -> <<"\\", "n">>
      [] c = "\r" -> <<"\\", "r">>
      [] c = "\f" -> <<"\\", "f">>
      [] c = NUL -> <<"\\", "x", "0", "0">>
      [] OTHER -> <<c>>

RECURSIVE QuoteBody(_)
QuoteBody(s) == IF s = <<>> THEN <<>> ELSE QuoteChar(Head(s)) \o QuoteBody(Tail(s))

\* strconv.Quote
Quote(s) == <<"\"">> \o QuoteBody(s) \o <<"\"">>

qTimeOnly == <<"*","[","S","y","s","t","e","m","[","T","i","m","e","C","r","e","a","t","e","d","[","t","i","m","e","d","i","f","f","(","@","S","y","s","t","e","m","T","i","m","e",")"," ","<","="," ">>
qProvider == <<"*","[","S","y","s","t","e","m","[","P","r","o","v","i","d","e","r","[","@","N","a","m","e","=">>
qAndTime == <<"]"," ","a","n","d"," ","T","i","m","e","C","r","e","a","t","e","d","[","t","i","m","e","d","i","f","f","(","@","S","y","s","t","e","m","T","i","m","e",")"," ","<","="," ">>
qClose == <<"]","]","]">>

\* buildQuery, lines 197-203
buildQuery(millis, prov) ==
    IF prov = <<>>
    THEN qTimeOnly \o Digits(millis) \o qClose
    ELSE qProvider \o Quote(prov) \o qAndTime \o Digits(millis) \o qClose

\* fetchEvents, lines 143-172: normalisation, query string, EvtQuery
FetchStart ==
    /\ pc = "fetch"
    /\ minutes' = normMinutes(minutesIn)
    /\ maxEvents' = normMax(maxIn)
    /\ ms' = lookbackMs(normMinutes(minutesIn))
    /\ queryStr' = buildQuery(lookbackMs(normMinutes(minutesIn)), TrimSpace(provider))
    /\ IF HasNUL(buildQuery(lookbackMs(normMinutes(minutesIn)), TrimSpace(provider)))
       THEN /\ err' = "query UTF16"
            /\ pc' = "returned"
            /\ UNCHANGED <<hQuery, openH, calls>>
       ELSE \E ok \in BOOLEAN :
            /\ calls' = [calls EXCEPT !.EvtQuery = @ + 1]
            /\ IF ok
               THEN /\ hQuery' = QueryHandle
                    /\ openH' = openH \cup {QueryHandle}
                    /\ pc' = "loop"
                    /\ UNCHANGED err
               ELSE /\ err' = "EvtQuery"
                    /\ pc' = "returned"
                    /\ UNCHANGED <<hQuery, openH>>
    /\ results' = <<>>
    /\ UNCHANGED <<logName, provider, minutesIn, maxIn, profile, period, channel,
                   tick, pending, panicked, returned, exitCode, nextEvt, exhausted>>
    /\ UNCHANGED <<cache, closeLog, nextMeta, levelVars, workerVars, cliVars, extVars>>

\* the condition of the batch loop, line 174
loopCond(n, cap) == n < cap

\* the cap test taken one record too late
capReachedLate(n, cap) == n > cap

\* the cap test that ends the range over a batch, line 189
capReached(n, cap) == n >= cap

\* answers of the native EvtNext: r its return value, errno its error,
\* n the number of handles it stored
NextAnswers(sizes) ==
    {[r |-> 1, errno |-> "ERROR_SUCCESS", n |-> n] : n \in sizes}
    \cup {[r |-> 0, errno |-> "ERROR_NO_MORE_ITEMS", n |-> 0],
          [r |-> 0, errno |-> "ERROR_TIMEOUT", n |-> 0]}

\* evtNextBatch, lines 218-236: the error it returns and the number of handles
evtNextBatch(a) ==
    IF a.r = 0
    THEN IF a.errno = "ERROR_NO_MORE_ITEMS"
         THEN [err |-> "ERROR_NO_MORE_ITEMS", n |-> 0]
         ELSE [err |-> "EvtNext", n |-> 0]
    ELSE [err |-> NoErr, n |-> a.n]

\* the loop treating exhaustion like any other error of evtNextBatch
afterNextStrict(e) ==
    IF e = NoErr THEN [stop |-> FALSE, err |-> NoErr]
    ELSE [stop |-> TRUE, err |-> e]

\* what the loop does with the error of evtNextBatch, lines 176-181
afterNext(e) ==
    IF e = NoErr THEN [stop |-> FALSE, err |-> NoErr]
    ELSE IF e = "ERROR_NO_MORE_ITEMS" THEN [stop |-> TRUE, err |-> NoErr]
    ELSE [stop |-> TRUE, err |-> e]

\* one iteration head of the batch loop with evtNextBatch, lines 174-181
NextBatch ==
    /\ pc = "loop"
    /\ loopCond(Len(results), maxEvents)
    /\ calls' = [calls EXCEPT !.EvtNext = @ + 1]
    /\ tick' = ~tick
    /\ \E a \in NextAnswers(profile) :
        LET b == evtNextBatch(a)
            d == afterNext(b.err)
        IN
        /\ a.r = 1 => calls.EvtNext < MaxNext
        /\ exhausted' = (exhausted \/ a.errno = "ERROR_NO_MORE_ITEMS")
        /\ err' = d.err
        /\ IF d.stop
           THEN /\ pc' = "exit"
                /\ UNCHANGED <<pending, openH, nextEvt>>
           ELSE /\ pending' = [i \in 1..b.n |-> EventHandle(nextEvt + i)]
                /\ openH' = openH \cup {EventHandle(nextEvt + i) : i \in 1..b.n}
                /\ nextEvt' = nextEvt + b.n
                /\ pc' = IF b.n = 0 THEN "loop" ELSE "range"
    /\ UNCHANGED <<logName, provider, minutesIn, maxIn, profile, period, channel,
                   queryStr, ms, minutes, maxEvents, hQuery, results, panicked,
                   returned, exitCode>>
    /\ UNCHANGED <<cache, closeLog, nextMeta, levelVars, workerVars, cliVars, extVars>>

\* the batch loop ends because the cap is reached, lines 174, 194
LoopDone ==
    /\ pc = "loop"
    /\ ~loopCond(Len(results), maxEvents)
    /\ pc' = "exit"
    /\ UNCHANGED <<logName, provider, minutesIn, maxIn, profile, period, channel,
                   queryStr, ms, tick, minutes, maxEvents, hQuery, results, pending, err, panicked,
                   returned, exitCode, nextEvt, exhausted>>
    /\ UNCHANGED <<nativeVars, levelVars, workerVars, cliVars, extVars>>

\* the accumulator taking the new record in front
accumulateFront(rs, rec) == <<rec>> \o rs

\* results = append(results, ev), line 188
accumulate(rs, rec) == Append(rs, rec)

\* one iteration of the range over the batch, lines 182-192
ProcessEvent ==
    /\ pc = "range"
    /\ pending # <<>>
    /\ \E o \in Outcomes :
        LET hEvt == Head(pending)
            r == parseEvent(hEvt, cache, nextMeta, period, o)
            opened == IF r.opened = NoHandle THEN {} ELSE {r.opened}
            t0 == [openH |-> openH \cup opened, closeLog |-> closeLog, n |-> calls.EvtClose]
            t1 == IF r.panic THEN t0 ELSE evtCloseHandle(hEvt, t0)
        IN
        /\ cache' = r.cache
        /\ nextMeta' = nextMeta + Cardinality(opened)
        /\ openH' = t1.openH
        /\ closeLog' = t1.closeLog
        /\ calls' = [calls EXCEPT !.EvtRender = @ + r.nRender,
                                  !.EvtOpenPublisherMetadata = @ + r.nOpen,
                                  !.EvtFormatMessage = @ + r.nFormat,
                                  !.EvtClose = t1.n]
        /\ IF r.panic
           THEN /\ panicked' = TRUE
                /\ pc' = "exit"
                /\ pending' = <<>>
                /\ UNCHANGED <<err, results>>
           ELSE IF r.err # NoErr
           THEN /\ err' = r.err
                /\ pc' = "exit"
                /\ pending' = <<>>
                /\ UNCHANGED <<panicked, results>>
           ELSE /\ results' = accumulate(results, r.rec)
                /\ IF capReached(Len(results) + 1, maxEvents)
                   THEN /\ pending' = <<>>
                        /\ pc' = "loop"
                   ELSE /\ pending' = Tail(pending)
                        /\ pc' = IF Tail(pending) = <<>> THEN "loop" ELSE "range"
                /\ UNCHANGED <<err, panicked>>
    /\ UNCHANGED <<logName, provider, minutesIn, maxIn, profile, period, channel,
                   queryStr, ms, tick, minutes, maxEvents, hQuery, returned, exitCode, nextEvt, exhausted>>
    /\ UNCHANGED <<levelVars, workerVars, cliVars, extVars>>

\* the deferred calls without the close of the query handle
deferredNoSession(c, q, hq, t) == cacheClose(c, q, t)

\* the deferred calls of fetchEvents in the order they run, lines 166, 172:
\* cache.close() first, then evtCloseHandle(hQuery)
deferred(c, q, hq, t) == evtCloseHandle(hq, cacheClose(c, q, t))

\* fetchEvents returning the accumulator next to the error
retvalPartial(e, rs) == rs

\* the record list fetchEvents returns with error e, lines 180, 186, 194
retval(e, rs) == IF e = NoErr THEN rs ELSE <<>>

\* fetchEvents returns (or unwinds): the deferred calls run, lines 166, 172, 180, 186, 194
Return ==
    /\ pc = "exit"
    /\ \E q \in Orders(DOMAIN cache) :
        LET t == deferred(cache, q, hQuery,
                          [openH |-> openH, closeLog |-> closeLog, n |-> calls.EvtClose])
        IN
        /\ openH' = t.openH
        /\ closeLog' = t.closeLog
        /\ calls' = [calls EXCEPT !.EvtClose = t.n]
    /\ cache' = EmptyCache
    /\ returned' = IF panicked THEN <<>> ELSE retval(err, results)
    /\ IF panicked
       THEN pc' = "exited" /\ exitCode' = 2
       ELSE pc' = "returned" /\ UNCHANGED exitCode
    /\ UNCHANGED <<logName, provider, minutesIn, maxIn, profile, period, channel,
                   queryStr, ms, tick, minutes, maxEvents, hQuery, results, pending, err, panicked,
                   nextEvt, exhausted>>
    /\ UNCHANGED <<nextMeta, levelVars, workerVars, cliVars, extVars>>

\* main, lines 116-127: report the error or encode the events
MainExit ==
    /\ pc = "returned"
    /\ \E encOk \in BOOLEAN :
          exitCode' = IF err # NoErr \/ ~encOk THEN 2 ELSE 0
    /\ pc' = "exited"
    /\ UNCHANGED <<logName, provider, minutesIn, maxIn, profile, period, channel,
                   queryStr, ms, tick, minutes, maxEvents, hQuery, results, pending, err, panicked,
                   returned, nextEvt, exhausted>>
    /\ UNCHANGED <<nativeVars, levelVars, workerVars, cliVars, extVars>>

Next ==
    \/ Normalize
    \/ FetchStart
    \/ NextBatch
    \/ LoopDone
    \/ ProcessEvent
    \/ Return
    \/ MainExit

Spec == Init /\ [][Next]_vars


----------------------------------------------------------------------------
(* mapLevel checked as a pure function *)

LevelInputs == (0..MaxLevel) \cup {2^16, 2^30 + (2^30 - 1)}

InitLevel ==
    /\ level \in LevelInputs
    /\ levelText = ""
    /\ pc = "mapLevel"
    /\ logName = <<>> /\ provider = <<>> /\ minutesIn = 0 /\ maxIn = 0
    /\ profile = {} /\ period = 1 /\ channel = "" /\ queryStr = <<>> /\ ms = 0 /\ tick = FALSE
    /\ minutes = 0 /\ maxEvents = 0
    /\ hQuery = NoHandle /\ results = <<>> /\ pending = <<>> /\ err = NoErr
    /\ panicked = FALSE /\ returned = <<>> /\ exitCode = -1 /\ nextEvt = 0
    /\ exhausted = FALSE
    /\ IdleNative
    /\ IdleExt
    /\ IdleWorkers
    /\ IdleCli

\* parseEvent line 253: the level text of a parsed level
MapLevelStep ==
    /\ pc = "mapLevel"
    /\ levelText' = mapLevel(level)
    /\ pc' = "mapped"
    /\ UNCHANGED <<logName, provider, minutesIn, maxIn, profile, period, channel,
                   queryStr, ms, tick, minutes, maxEvents, hQuery, results, pending, err, panicked,
                   returned, exitCode, nextEvt, exhausted, level>>
    /\ UNCHANGED <<nativeVars, workerVars, cliVars, extVars>>

NextLevel == MapLevelStep

SpecLevel == InitLevel /\ [][NextLevel]_vars

----------------------------------------------------------------------------
(* publisherCache shared by concurrent workers: every worker calls get once, *)
(* one worker calls close; each step is one stretch of code between two     *)
(* points where another worker can run.                                     *)

CacheNames == Range(Providers) \cup {<<"P", NUL>>}

InitCache ==
    /\ pc = "cache"
    /\ wpc = [w \in Procs |-> "idle"]
    /\ wprov = [w \in Workers |-> <<>>]
    /\ wres = [w \in Workers |-> [h |-> NoHandle, err |-> NoErr]]
    /\ mu = Free
    /\ closeIter = {}
    /\ logName = <<>> /\ provider = <<>> /\ minutesIn = 0 /\ maxIn = 0
    /\ profile = {} /\ period = 1 /\ channel = "" /\ queryStr = <<>> /\ ms = 0 /\ tick = FALSE
    /\ minutes = 0 /\ maxEvents = 0
    /\ hQuery = NoHandle /\ results = <<>> /\ pending = <<>> /\ err = NoErr
    /\ panicked = FALSE /\ returned = <<>> /\ exitCode = -1 /\ nextEvt = 0
    /\ exhausted = FALSE
    /\ IdleNative
    /\ IdleExt
    /\ IdleCli
    /\ IdleLevel

\* sync.Mutex.Lock granted regardless of the holder
muGrantedAlways(m) == TRUE

\* sync.Mutex.Lock is granted only while nobody holds the mutex, lines 66, 94
muAvailable(m) == m = Free

\* a worker calls get(name), line 65
GetCall(w) ==
    /\ wpc[w] = "idle"
    /\ \E name \in CacheNames : wprov' = [wprov EXCEPT ![w] = name]
    /\ wpc' = [wpc EXCEPT ![w] = "lock"]
    /\ UNCHANGED <<wres, mu, closeIter, runVars, nativeVars, levelVars, cliVars, extVars>>

\* c.mu.Lock() returns, line 66
GetLock(w) ==
    /\ wpc[w] = "lock"
    /\ muAvailable(mu)
    /\ mu' = w
    /\ wpc' = [wpc EXCEPT ![w] = "check"]
    /\ UNCHANGED <<wprov, wres, closeIter, runVars, nativeVars, levelVars, cliVars, extVars>>

\* the map lookup and the UTF16 conversion, lines 68-77
GetCheck(w) ==
    /\ wpc[w] = "check"
    /\ IF wprov[w] \in DOMAIN cache
       THEN /\ wres' = [wres EXCEPT ![w] = [h |-> cache[wprov[w]], err |-> NoErr]]
            /\ wpc' = [wpc EXCEPT ![w] = "unlock"]
       ELSE IF HasNUL(wprov[w])
       THEN /\ wres' = [wres EXCEPT ![w] = [h |-> NoHandle, err |-> "publisher UTF16"]]
            /\ wpc' = [wpc EXCEPT ![w] = "unlock"]
       ELSE /\ wpc' = [wpc EXCEPT ![w] = "open"]
            /\ UNCHANGED wres
    /\ UNCHANGED <<wprov, mu, closeIter, runVars, nativeVars, levelVars, cliVars, extVars>>

\* the native EvtOpenPublisherMetadata call, lines 78-88
GetOpen(w) ==
    /\ wpc[w] = "open"
    /\ calls' = [calls EXCEPT !.EvtOpenPublisherMetadata = @ + 1]
    /\ \E ok \in BOOLEAN :
        IF ok
        THEN /\ wres' = [wres EXCEPT ![w] = [h |-> MetaHandle(nextMeta + 1, wprov[w]),
                                             err |-> NoErr]]
             /\ openH' = openH \cup {MetaHandle(nextMeta + 1, wprov[w])}
             /\ nextMeta' = nextMeta + 1
             /\ wpc' = [wpc EXCEPT ![w] = "insert"]
        ELSE /\ wres' = [wres EXCEPT ![w] = [h |-> NoHandle,
                                             err |-> "EvtOpenPublisherMetadata"]]
             /\ wpc' = [wpc EXCEPT ![w] = "unlock"]
             /\ UNCHANGED <<openH, nextMeta>>
    /\ UNCHANGED <<wprov, mu, closeIter, runVars, cache, closeLog, levelVars, cliVars, extVars>>

\* c.handles[provider] = h, line 89
GetInsert(w) ==
    /\ wpc[w] = "insert"
    /\ cache' = [x \in DOMAIN cache \cup {wprov[w]} |->
                    IF x = wprov[w] THEN wres[w].h ELSE cache[x]]
    /\ wpc' = [wpc EXCEPT ![w] = "unlock"]
    /\ UNCHANGED <<wprov, wres, mu, closeIter, runVars, openH, closeLog, calls,
                   nextMeta, levelVars, cliVars, extVars>>

\* the deferred c.mu.Unlock() and the return, lines 67, 72, 76, 86, 90
GetUnlock(w) ==
    /\ wpc[w] = "unlock"
    /\ mu' = Free
    /\ wpc' = [wpc EXCEPT ![w] = "done"]
    /\ UNCHANGED <<wprov, wres, closeIter, runVars, nativeVars, levelVars, cliVars, extVars>>

\* close: c.mu.Lock() returns and the range over the map starts, lines 94-96
CloseLock ==
    /\ wpc[Closer] = "idle"
    /\ muAvailable(mu)
    /\ mu' = Closer
    /\ closeIter' = DOMAIN cache
    /\ wpc' = [wpc EXCEPT ![Closer] = "iter"]
    /\ UNCHANGED <<wprov, wres, runVars, nativeVars, levelVars, cliVars, extVars>>

\* close: one iteration of the range, lines 96-99
CloseOne ==
    /\ wpc[Closer] = "iter"
    /\ \E k \in closeIter \cap DOMAIN cache :
        LET t == evtCloseHandle(cache[k],
                    [openH |-> openH, closeLog |-> closeLog, n |-> calls.EvtClose])
        IN
        /\ openH' = t.openH
        /\ closeLog' = t.closeLog
        /\ calls' = [calls EXCEPT !.EvtClose = t.n]
        /\ cache' = [x \in DOMAIN cache \ {k} |-> cache[x]]
        /\ closeIter' = closeIter \ {k}
    /\ UNCHANGED <<wpc, wprov, wres, mu, runVars, nextMeta, levelVars, cliVars, extVars>>

\* close: the range is over, the deferred c.mu.Unlock() runs, lines 95, 100
CloseUnlock ==
    /\ wpc[Closer] = "iter"
    /\ closeIter \cap DOMAIN cache = {}
    /\ mu' = Free
    /\ closeIter' = {}
    /\ wpc' = [wpc EXCEPT ![Closer] = "done"]
    /\ UNCHANGED <<wprov, wres, runVars, nativeVars, levelVars, cliVars, extVars>>

NextCache ==
    \/ \E w \in Workers : GetCall(w)
    \/ \E w \in Workers : GetLock(w)
    \/ \E w \in Workers : GetCheck(w)
    \/ \E w \in Workers : GetOpen(w)
    \/ \E w \in Workers : GetInsert(w)
    \/ \E w \in Workers : GetUnlock(w)
    \/ CloseLock
    \/ CloseOne
    \/ CloseUnlock

SpecCache == InitCache /\ [][NextCache]_vars

----------------------------------------------------------------------------
(* The mains of winopsguard-triage, winopsguard-remediate-update and        *)
(* winopsguard-remediate-iis: one action per stretch of main between two    *)
(* interactions with the outside (stdin, the operator, PATH, the child      *)
(* process, the LLM service).                                               *)

defaultActionName == "windows_update_remediation"
actionName == "iisreset"

\* byte length of the documents tried that are neither empty nor near the limit
SmallLen == 64

\* the binaries and, for triage, the values of -max-bytes tried
CliTools ==
    {[name |-> "update", maxBytes |-> maxInputBytes],
     [name |-> "iis", maxBytes |-> maxInputBytes],
     [name |-> "triage", maxBytes |-> defaultMaxBytes],
     [name |-> "triage", maxBytes |-> 0],
     [name |-> "triage", maxBytes |-> SmallLen - 1]}

Docs ==
    {[kind |-> "object", t |-> d] : d \in TriageDocs}
    \cup {[kind |-> "trailing", t |-> [NoTriage EXCEPT !.Summary = <<"w","i","n","d","o","w","s"," ","u","p","d","a","t","e">>]],
          [kind |-> "trailing", t |-> [NoTriage EXCEPT !.Summary = <<"i","i","s">>]],
          [kind |-> "invalid", t |-> NoTriage],
          NoDoc}

\* a stretch of standard input up to an end-of-file condition: len bytes
\* holding doc, or the line text; err is how the stretch ends ("nil" after
\* a newline, "EOF", or "other" for a failing read)
Seg(n, d, l, e) == [len |-> n, doc |-> d, line |-> l, err |-> e]

BaseDoc == [kind |-> "object", t |-> [NoTriage EXCEPT !.Summary = <<"w","i","n","d","o","w","s"," ","u","p","d","a","t","e">>]]

\* what the first read of standard input can find
FirstSegs ==
    {Seg(SmallLen, d, <<>>, "EOF") : d \in Docs}
    \cup {Seg(0, NoDoc, <<>>, "EOF"),
          Seg(maxInputBytes, BaseDoc, <<>>, "EOF"),
          Seg(maxInputBytes + 1, BaseDoc, <<>>, "EOF"),
          Seg(SmallLen, BaseDoc, <<>>, "other")}

Line(l, e) == Seg(Len(l), NoDoc, l, e)

\* what a console hands to askApproval after the end-of-file that closed the
\* document: a line with its newline, a last line without one, or a failing read
AnswerSegs ==
    {Line(<<"y","e","s","\n">>, "nil"),
     Line(<<"y","\n">>, "nil"),
     Line(<<" ","Y","E","S"," ","\r","\n">>, "nil"),
     Line(<<"Y">>, "EOF"),
     Line(<<"n","o","\n">>, "nil"),
     Line(<<"\n">>, "nil"),
     Line(<<>>, "EOF"),
     Line(<<"y","e","s"," ","p","l","e","a","s","e","\n">>, "nil"),
     Line(<<"y","e","s","s">>, "EOF"),
     Line(<<>>, "other"),
     Line(<<"y","e","s">>, "other")}

\* standard input is a pipe (one stretch, then end-of-file for ever) or a
\* console (input can follow an end-of-file)
StdinCases ==
    {<<f>> : f \in FirstSegs} \cup {<<f, a>> : f \in FirstSegs, a \in AnswerSegs}

InitCli ==
    /\ tool \in CliTools
    /\ stdin \in StdinCases
    /\ cpc = "read"
    /\ data = NoDoc
    /\ triage = NoTriage
    /\ answer = NoAnswer
    /\ result = (IF tool.name = "iis" THEN [NoResult EXCEPT !.Action = actionName]
                 ELSE NoResult)
    /\ stdout = <<>>
    /\ ran = <<>>
    /\ status = -1
    /\ pc = "cli"
    /\ logName = <<>> /\ provider = <<>> /\ minutesIn = 0 /\ maxIn = 0
    /\ profile = {} /\ period = 1 /\ channel = "" /\ queryStr = <<>> /\ ms = 0 /\ tick = FALSE
    /\ minutes = 0 /\ maxEvents = 0
    /\ hQuery = NoHandle /\ results = <<>> /\ pending = <<>> /\ err = NoErr
    /\ panicked = FALSE /\ returned = <<>> /\ exitCode = -1 /\ nextEvt = 0
    /\ exhausted = FALSE
    /\ IdleNative
    /\ IdleExt
    /\ IdleLevel
    /\ IdleWorkers

\* main writes the audit record res and returns
Finish(res) ==
    /\ result' = res
    /\ \E ok \in BOOLEAN :
          LET w == IF tool.name = "iis" THEN output(stdout, res, ok)
                   ELSE outputResult(stdout, res, ok)
          IN stdout' = w.stdout /\ status' = w.status
    /\ cpc' = "exited"

\* main gives up through exitFatal / exitErr
Fatal ==
    /\ stdout' = exitFatal(stdout).stdout
    /\ status' = exitFatal(stdout).status
    /\ cpc' = "exited"
    /\ UNCHANGED result

\* what main does with an error of readStdinLimited or parseTriage:
\* remediate-update lines 75-83, remediate-iis lines 53-65, triage lines 71-79
InputError(e) ==
    IF tool.name = "iis" THEN Finish([result EXCEPT !.Error = e]) ELSE Fatal

\* remediate-update line 75, remediate-iis line 53, triage line 71
ReadStdin ==
    /\ cpc = "read"
    /\ LET seg == Head(stdin)
           r == readStdinLimited(seg, tool.maxBytes,
                                 IF tool.name = "triage" THEN defaultMaxBytes
                                 ELSE maxInputBytes)
       IN
       /\ stdin' = (IF r.got < seg.len
                    THEN <<[seg EXCEPT !.len = @ - r.got]>> \o Tail(stdin)
                    ELSE Tail(stdin))
       /\ IF r.err # NoErr
          THEN InputError(r.err) /\ UNCHANGED data
          ELSE /\ data' = r.doc
               /\ cpc' = "parse"
               /\ UNCHANGED <<result, stdout, status>>
    /\ UNCHANGED <<tool, triage, answer, ran>>
    /\ UNCHANGED <<runVars, nativeVars, levelVars, workerVars, extVars>>

\* remediate-update lines 80-100, remediate-iis lines 60-65, triage lines 76-79
ParseInput ==
    /\ cpc = "parse"
    /\ IF tool.name = "triage"
       THEN IF normalizeInput(data).err # NoErr
            THEN Fatal /\ UNCHANGED triage
            ELSE cpc' = "llm" /\ UNCHANGED <<triage, result, stdout, status>>
       ELSE IF parseTriage(data).err # NoErr
            THEN InputError(parseTriage(data).err) /\ UNCHANGED triage
            ELSE /\ triage' = parseTriage(data).t
                 /\ result' = (IF tool.name = "update"
                               THEN [NoResult EXCEPT !.Action = defaultActionName]
                               ELSE result)
                 /\ cpc' = "applicable"
                 /\ UNCHANGED <<stdout, status>>
    /\ UNCHANGED <<tool, stdin, data, answer, ran>>
    /\ UNCHANGED <<runVars, nativeVars, levelVars, workerVars, extVars>>

\* remediate-update lines 102-119, remediate-iis lines 67-71
CheckApplicable ==
    /\ cpc = "applicable"
    /\ IF tool.name = "update"
       THEN IF ~isWindowsUpdateIssue(triage).ok
            THEN Finish([result EXCEPT !.Error = "not applicable"])
            ELSE /\ result' = [result EXCEPT
                                  !.Action = chooseAction(triage).spec.name,
                                  !.Command = joinCommand(chooseAction(triage).spec)]
                 /\ cpc' = "approve"
                 /\ UNCHANGED <<stdout, status>>
       ELSE IF ~isIISIssue(triage)
            THEN Finish([result EXCEPT !.Error = "no IIS-related issue detected"])
            ELSE /\ cpc' = "approve"
                 /\ UNCHANGED <<result, stdout, status>>
    /\ UNCHANGED <<tool, stdin, data, triage, answer, ran>>
    /\ UNCHANGED <<runVars, nativeVars, levelVars, workerVars, extVars>>

\* remediate-update lines 121-133, remediate-iis lines 73-84
AskApproval ==
    /\ cpc = "approve"
    /\ LET seg == IF stdin = <<>> THEN Line(<<>>, "EOF") ELSE Head(stdin)
           a == askApproval(seg)
       IN
       /\ answer' = [line |-> seg.line, err |-> seg.err]
       /\ stdin' = (IF stdin = <<>> THEN <<>> ELSE Tail(stdin))
       /\ IF a.err # NoErr
          THEN Finish([result EXCEPT !.Error = "approval failed"])
          ELSE IF ~a.approved
          THEN Finish([result EXCEPT !.Approved = FALSE,
                                     !.Error = IF tool.name = "update"
                                               THEN "not approved" ELSE @])
          ELSE /\ result' = [result EXCEPT !.Approved = TRUE]
               /\ cpc' = "tools"
               /\ UNCHANGED <<stdout, status>>
    /\ UNCHANGED <<tool, data, triage, ran>>
    /\ UNCHANGED <<runVars, nativeVars, levelVars, workerVars, extVars>>

\* remediate-update lines 135-139 (missingTools), remediate-iis lines 86-90
\* (ensureIISPresent): exec.LookPath finds the executable or not
CheckTools ==
    /\ cpc = "tools"
    /\ \E found \in BOOLEAN :
          IF ~found
          THEN Finish([result EXCEPT !.Error = IF tool.name = "update"
                                                THEN "required tools missing"
                                                ELSE "iisreset not found"])
          ELSE /\ cpc' = "execute"
               /\ UNCHANGED <<result, stdout, status>>
    /\ UNCHANGED <<tool, stdin, data, triage, answer, ran>>
    /\ UNCHANGED <<runVars, nativeVars, levelVars, workerVars, extVars>>

\* the command remediate-iis runs, line 186
iisSpec == [name |-> actionName, exe |-> actionName, args |-> <<>>]

\* remediate-update lines 141-151, remediate-iis lines 92-104
Execute ==
    /\ cpc = "execute"
    /\ ran' = Append(ran, IF tool.name = "update" THEN chooseAction(triage).spec
                          ELSE iisSpec)
    /\ \E o \in RunOutcomes :
          /\ tool.name = "iis" => o.err # "timeout"
          /\ LET r == IF tool.name = "update" THEN executeCommand(o)
                      ELSE runIISReset(o)
             IN Finish([result EXCEPT !.Executed = TRUE,
                                      !.ExitCode = r.ExitCode,
                                      !.Error = r.Error])
    /\ UNCHANGED <<tool, stdin, data, triage, answer>>
    /\ UNCHANGED <<runVars, nativeVars, levelVars, workerVars, extVars>>

\* triage lines 81-92: the LLM call and outputFormattedJSON
CallLLM ==
    /\ cpc = "llm"
    /\ \E llm \in {"ok", "error", "not JSON"}, ok \in BOOLEAN :
          IF llm = "ok"
          THEN /\ stdout' = Append(stdout, Write(NoResult, ok))
               /\ status' = (IF ok THEN 0 ELSE 2)
          ELSE /\ status' = 2
               /\ UNCHANGED stdout
    /\ cpc' = "exited"
    /\ UNCHANGED <<tool, stdin, data, triage, answer, result, ran>>
    /\ UNCHANGED <<runVars, nativeVars, levelVars, workerVars, extVars>>

NextCli ==
    \/ ReadStdin
    \/ ParseInput
    \/ CheckApplicable
    \/ AskApproval
    \/ CheckTools
    \/ Execute
    \/ CallLLM

SpecCli == InitCli /\ [][NextCli]_vars

----------------------------------------------------------------------------
(* Termination of fetchEvents: the collector under the assumption that it   *)
(* keeps taking steps. The count of EvtNext calls stops at MaxNext; a call  *)
(* beyond that is answered with an empty batch and only changes tick.       *)

\* the runs explored for termination
TermCases == {[BaseCase EXCEPT !.max = m, !.period = q] : m \in {1, 2}, q \in 1..2}

InitTerm ==
    /\ \E c \in TermCases :
          /\ logName = c.log
          /\ provider = c.prov
          /\ minutesIn = c.min
          /\ maxIn = c.max
          /\ profile = c.profile
          /\ period = c.period
    /\ pc = "main"
    /\ channel = ""
    /\ queryStr = <<>> /\ ms = 0 /\ tick = FALSE
    /\ minutes = 0
    /\ maxEvents = 0
    /\ hQuery = NoHandle
    /\ results = <<>>
    /\ pending = <<>>
    /\ err = NoErr
    /\ panicked = FALSE
    /\ returned = <<>>
    /\ exitCode = -1
    /\ nextEvt = 0
    /\ exhausted = FALSE
    /\ IdleNative
    /\ IdleExt
    /\ IdleLevel
    /\ IdleWorkers
    /\ IdleCli

\* one more iteration of the batch loop, lines 174-182, in which EvtNext
\* succeeds with zero handles: the range over the batch is empty and the
\* loop condition is tested again with nothing changed
NextBatchIdle ==
    /\ pc = "loop"
    /\ loopCond(Len(results), maxEvents)
    /\ calls.EvtNext >= MaxNext
    /\ 0 \in profile
    /\ LET b == evtNextBatch([r |-> 1, errno |-> "ERROR_SUCCESS", n |-> 0])
           d == afterNext(b.err)
       IN ~d.stop /\ b.n = 0
    /\ tick' = ~tick
    /\ UNCHANGED <<pc, logName, provider, minutesIn, maxIn, profile, period, channel,
                   queryStr, ms, minutes, maxEvents, hQuery, results, pending, err,
                   panicked, returned, exitCode, nextEvt, exhausted>>
    /\ UNCHANGED <<nativeVars, levelVars, workerVars, cliVars, extVars>>

NextTerm == Next \/ NextBatchIdle

\* weak fairness of the program's steps: the process is never suspended for ever
SpecTerm == InitTerm /\ [][NextTerm]_vars /\ WF_vars(NextTerm)

----------------------------------------------------------------------------
(***************************************************************************)
(* The two-phase protocols on their own: renderEventXML and formatMessage  *)
(* applied to every combination of answers of the probe and fill calls.    *)
(***************************************************************************)

IdleRun ==
    /\ logName = <<>> /\ provider = <<>> /\ minutesIn = 0 /\ maxIn = 0
    /\ profile = {} /\ period = 1 /\ channel = "" /\ queryStr = <<>> /\ ms = 0 /\ tick = FALSE
    /\ minutes = 0 /\ maxEvents = 0
    /\ hQuery = NoHandle /\ results = <<>> /\ pending = <<>> /\ err = NoErr
    /\ panicked = FALSE /\ returned = <<>> /\ exitCode = -1 /\ nextEvt = 0
    /\ exhausted = FALSE

\* every combination of answers of the four native calls
ProtoOutcomes ==
    {[OkEv EXCEPT !.rProbe = p, !.rFill = a, !.fProbe = q, !.fFill = b] :
        p \in ProbeResults, a \in BOOLEAN, q \in ProbeResults, b \in BOOLEAN}

InitProto ==
    /\ outcome \in ProtoOutcomes
    /\ ppc = "render"
    /\ xmlRes = NoText
    /\ msgRes = NoText
    /\ pc = "proto"
    /\ IdleRun
    /\ IdleNative
    /\ IdleLevel
    /\ IdleWorkers
    /\ IdleCli
    /\ IdleAgent
    /\ IdleTrim

RenderStep ==
    /\ ppc = "render"
    /\ xmlRes' = renderEventXML(outcome)
    /\ ppc' = "format"
    /\ UNCHANGED <<outcome, msgRes>>
    /\ UNCHANGED <<runVars, nativeVars, levelVars, workerVars, cliVars, agentVars, trimVars>>

FormatStep ==
    /\ ppc = "format"
    /\ msgRes' = formatMessage(outcome)
    /\ ppc' = "done"
    /\ UNCHANGED <<outcome, xmlRes>>
    /\ UNCHANGED <<runVars, nativeVars, levelVars, workerVars, cliVars, agentVars, trimVars>>

NextProto == RenderStep \/ FormatStep

SpecProto == InitProto /\ [][NextProto]_vars

----------------------------------------------------------------------------
(***************************************************************************)
(* The two release operations on their own: evtCloseHandle applied to the  *)
(* session handle and publisherCache.close, each called any number of      *)
(* times in any order on a session that was opened or not and a cache      *)
(* holding any set of metadata handles.                                    *)
(***************************************************************************)

MaxCloses == 2

\* the provider names the cache may hold, in the order they were opened
CloseNames == Providers \o << <<"P", "3">> >>

InitClose ==
    /\ pc = "close"
    /\ hQuery \in {NoHandle, QueryHandle}
    /\ \E S \in SUBSET (1..Len(CloseNames)) :
          /\ cache = [x \in {CloseNames[i] : i \in S} |->
                         MetaHandle(CHOOSE i \in S : CloseNames[i] = x, x)]
          /\ nextMeta = Len(CloseNames)
    /\ openH = {cache[x] : x \in DOMAIN cache} \cup ({hQuery} \ {NoHandle})
    /\ closeLog = <<>>
    /\ calls = NoCalls
    /\ logName = <<>> /\ provider = <<>> /\ minutesIn = 0 /\ maxIn = 0
    /\ profile = {} /\ period = 1 /\ channel = "" /\ queryStr = <<>> /\ ms = 0 /\ tick = FALSE
    /\ minutes = 0 /\ maxEvents = 0
    /\ results = <<>> /\ pending = <<>> /\ err = NoErr
    /\ panicked = FALSE /\ returned = <<>> /\ exitCode = -1 /\ nextEvt = 0
    /\ exhausted = FALSE
    /\ IdleLevel
    /\ IdleWorkers
    /\ IdleCli
    /\ IdleExt

\* evtCloseHandle(hQuery), lines 361-366: hQuery is a value the caller keeps
CloseSession ==
    /\ pc = "close"
    /\ CloseCount(QueryHandle) < MaxCloses
    /\ LET t == evtCloseHandle(hQuery,
                   [openH |-> openH, closeLog |-> closeLog, n |-> calls.EvtClose])
       IN /\ openH' = t.openH
          /\ closeLog' = t.closeLog
          /\ calls' = [calls EXCEPT !.EvtClose = t.n]
    /\ UNCHANGED <<pc, logName, provider, minutesIn, maxIn, profile, period, channel,
                   queryStr, ms, tick, minutes, maxEvents, hQuery, results, pending, err,
                   panicked, returned, exitCode, nextEvt, exhausted>>
    /\ UNCHANGED <<cache, nextMeta, levelVars, workerVars, cliVars, extVars>>

\* publisherCache.close, lines 93-100: every key visited is closed and deleted
CloseCache ==
    /\ pc = "close"
    /\ \E q \in Orders(DOMAIN cache) :
        LET t == cacheClose(cache, q,
                   [openH |-> openH, closeLog |-> closeLog, n |-> calls.EvtClose])
        IN /\ openH' = t.openH
           /\ closeLog' = t.closeLog
           /\ calls' = [calls EXCEPT !.EvtClose = t.n]
    /\ cache' = EmptyCache
    /\ UNCHANGED <<runVars, nextMeta, levelVars, workerVars, cliVars, extVars>>

NextClose == CloseSession \/ CloseCache

SpecClose == InitClose /\ [][NextClose]_vars

----------------------------------------------------------------------------
(***************************************************************************)
(* The agent binary (src/cmd/winopsguard/main.go) from the enqueue on, and *)
(* Client.SendWithRetry (src/internal/sanitizer/mask.go) running as the    *)
(* goroutine main starts.  One request, whose id is "r1".                  *)
(***************************************************************************)

\* the maxRetry main passes to SendWithRetry, main.go line 52
agentMaxRetry == 3

\* the loop running one more attempt than its condition allows
retryCondLax(i, m) == i <= m + 1

\* the loop condition of SendWithRetry, mask.go line 127
retryCond(i, m) == i <= m

InitAgent ==
    /\ apc = "enqueue"
    /\ spc = "off"
    /\ maxRetry \in 0..agentMaxRetry
    /\ retry = 0
    /\ sends = <<>>
    /\ queue = {}
    /\ marks = 0
    /\ pc = "agent"
    /\ IdleRun
    /\ IdleNative
    /\ IdleLevel
    /\ IdleWorkers
    /\ IdleCli
    /\ IdleProto
    /\ IdleTrim

\* q.Enqueue(req), main.go line 49 and queue.go lines 31-40: the error of
\* os.WriteFile is dropped, so the entry may or may not exist afterwards
Enqueue ==
    /\ apc = "enqueue"
    /\ \E wrote \in BOOLEAN : queue' = IF wrote THEN {"r1"} ELSE {}
    /\ apc' = "go"
    /\ UNCHANGED <<spc, maxRetry, retry, sends, marks>>
    /\ UNCHANGED <<runVars, nativeVars, levelVars, workerVars, cliVars, protoVars, trimVars>>

\* go client.SendWithRetry(queueReq, q, 3), main.go line 52
GoSend ==
    /\ apc = "go"
    /\ spc' = "marshal"
    /\ apc' = "log"
    /\ UNCHANGED <<maxRetry, retry, sends, queue, marks>>
    /\ UNCHANGED <<runVars, nativeVars, levelVars, workerVars, cliVars, protoVars, trimVars>>

\* main logs and returns, main.go lines 54-55: the process ends and takes
\* the goroutine with it wherever it stands
MainReturn ==
    /\ apc = "log"
    /\ apc' = "exited"
    /\ spc' = IF spc = "done" THEN "done" ELSE "killed"
    /\ UNCHANGED <<maxRetry, retry, sends, queue, marks>>
    /\ UNCHANGED <<runVars, nativeVars, levelVars, workerVars, cliVars, protoVars, trimVars>>

\* json.Marshal(req.Payload), mask.go lines 122-126, and i := 0
Marshal ==
    /\ apc # "exited" /\ spc = "marshal"
    /\ \E ok \in BOOLEAN : spc' = IF ok THEN "loop" ELSE "done"
    /\ retry' = 0
    /\ UNCHANGED <<apc, maxRetry, sends, queue, marks>>
    /\ UNCHANGED <<runVars, nativeVars, levelVars, workerVars, cliVars, protoVars, trimVars>>

\* the test i <= maxRetry, mask.go line 127
LoopTest ==
    /\ apc # "exited" /\ spc = "loop"
    /\ spc' = IF retryCond(retry, maxRetry) THEN "send" ELSE "done"
    /\ UNCHANGED <<apc, maxRetry, retry, sends, queue, marks>>
    /\ UNCHANGED <<runVars, nativeVars, levelVars, workerVars, cliVars, protoVars, trimVars>>

\* c.doSend(data), mask.go lines 128 and 141-168
DoSend ==
    /\ apc # "exited" /\ spc = "send"
    /\ \E ok \in BOOLEAN :
          /\ sends' = Append(sends, ok)
          /\ spc' = IF ok THEN "mark" ELSE "sleep"
    /\ UNCHANGED <<apc, maxRetry, retry, queue, marks>>
    /\ UNCHANGED <<runVars, nativeVars, levelVars, workerVars, cliVars, protoVars, trimVars>>

\* the backoff and continue, mask.go lines 129-132, and i++
Backoff ==
    /\ apc # "exited" /\ spc = "sleep"
    /\ retry' = retry + 1
    /\ spc' = "loop"
    /\ UNCHANGED <<apc, maxRetry, sends, queue, marks>>
    /\ UNCHANGED <<runVars, nativeVars, levelVars, workerVars, cliVars, protoVars, trimVars>>

\* q.MarkSent(req.ID) and return, mask.go lines 134-136 and queue.go lines
\* 42-44: the error of os.Remove is dropped
MarkSent ==
    /\ apc # "exited" /\ spc = "mark"
    /\ marks' = marks + 1
    /\ \E removed \in BOOLEAN : queue' = IF removed THEN queue \ {"r1"} ELSE queue
    /\ spc' = "done"
    /\ UNCHANGED <<apc, maxRetry, retry, sends>>
    /\ UNCHANGED <<runVars, nativeVars, levelVars, workerVars, cliVars, protoVars, trimVars>>

NextAgent ==
    \/ Enqueue \/ GoSend \/ MainReturn
    \/ Marshal \/ LoopTest \/ DoSend \/ Backoff \/ MarkSent

SpecAgent == InitAgent /\ [][NextAgent]_vars

----------------------------------------------------------------------------
(***************************************************************************)
(* summarizer.BuildPayload and trimToSize                                  *)
(* (src/internal/summarizer/summarizer.go).  A request is measured in      *)
(* bytes of its JSON encoding: envelope is everything outside the two      *)
(* Recent arrays, and an event of a Recent array contributes frame (its    *)
(* other fields, punctuation and separator) plus msg, the length of its    *)
(* message, taken to hold characters that JSON encodes in one byte each.   *)
(***************************************************************************)

MaxChecks == 8

\* len("...(truncated)"), line 104
truncMarkLen == 14

\* truncate on the length of the string, lines 100-105
truncate(len, limit) ==
    IF limit <= 0 \/ len <= limit THEN len ELSE limit + truncMarkLen

RECURSIVE recentLen(_)
recentLen(q) == IF q = <<>> THEN 0 ELSE Head(q).frame + Head(q).msg + recentLen(Tail(q))

\* len(b) after json.Marshal(req), line 68
jsonLen(r) == r.envelope + recentLen(r.sys) + recentLen(r.app)

\* one Recent list after lines 73-85: messages cut to ml, list cut to rl
trimRecent(q, rl, ml) ==
    LET t == [i \in 1..Len(q) |-> [q[i] EXCEPT !.msg = truncate(@, ml)]]
    IN IF Len(t) > rl THEN SubSeq(t, 1, rl) ELSE t

\* the limits that stop tightening at (10, 64)
tightenStuck(rl, ml) ==
    <<IF rl > 10 THEN rl - 10 ELSE rl, IF ml > 128 THEN ml \div 2 ELSE 64>>

\* the limits for the next loop, lines 87-96
tighten(rl, ml) ==
    <<IF rl > 10 THEN rl - 10 ELSE 0, IF ml > 128 THEN ml \div 2 ELSE 64>>

\* a Recent list of n events whose messages are m and m \div 4 bytes in turn
Recent(n, m) ==
    [i \in 1..n |-> [frame |-> 80, msg |-> IF i % 2 = 1 THEN m ELSE m \div 4]]

InitTrim ==
    /\ \E ns \in {0, 12, 55}, na \in {0, 12}, m \in {10, 100, 513, 600} :
          req = [envelope |-> 300, sys |-> Recent(ns, m), app |-> Recent(na, m)]
    /\ maxBytes \in {-1, 0, 500, 5000, 100000}
    /\ recentLimit = 0
    /\ messageLimit = 0
    /\ tpc = "build"
    /\ checks = <<>>
    /\ measured = <<>>
    /\ pc = "trim"
    /\ IdleRun
    /\ IdleNative
    /\ IdleLevel
    /\ IdleWorkers
    /\ IdleCli
    /\ IdleProto
    /\ IdleAgent

\* BuildPayload calls trimToSize, lines 59, 64-65
BuildPayload ==
    /\ tpc = "build"
    /\ recentLimit' = 50
    /\ messageLimit' = 512
    /\ tpc' = "check"
    /\ UNCHANGED <<req, maxBytes, checks, measured>>
    /\ UNCHANGED <<runVars, nativeVars, levelVars, workerVars, cliVars, protoVars, agentVars>>

\* the size check at the head of the loop, lines 68-71
SizeCheck ==
    /\ tpc = "check"
    /\ Len(checks) < MaxChecks
    /\ checks' = Append(checks, <<recentLimit, messageLimit>>)
    /\ measured' = Append(measured, jsonLen(req))
    /\ tpc' = IF jsonLen(req) <= maxBytes \/ (recentLimit = 0 /\ messageLimit = 64)
              THEN "done" ELSE "cut"
    /\ UNCHANGED <<req, maxBytes, recentLimit, messageLimit>>
    /\ UNCHANGED <<runVars, nativeVars, levelVars, workerVars, cliVars, protoVars, agentVars>>

\* one trimming step, lines 73-96
TrimStep ==
    /\ tpc = "cut"
    /\ req' = [req EXCEPT !.sys = trimRecent(@, recentLimit, messageLimit),
                          !.app = trimRecent(@, recentLimit, messageLimit)]
    /\ recentLimit' = tighten(recentLimit, messageLimit)[1]
    /\ messageLimit' = tighten(recentLimit, messageLimit)[2]
    /\ tpc' = "check"
    /\ UNCHANGED <<maxBytes, checks, measured>>
    /\ UNCHANGED <<runVars, nativeVars, levelVars, workerVars, cliVars, protoVars, agentVars>>

NextTrim == BuildPayload \/ SizeCheck \/ TrimStep

\* the function keeps running until it returns
SpecTrim == InitTrim /\ [][NextTrim]_vars /\ WF_vars(NextTrim)

----------------------------------------------------------------------------
(* Claims about the collection run *)

EventErrors == {"EvtRender(size)", "EvtRender", "parse XML", "parse time",
                "EvtFormatMessage(size)", "EvtFormatMessage"}

RunErrors == EventErrors \cup {"EvtNext", "EvtOpenPublisherMetadata", "publisher UTF16"}

C1_Cap == IF maxIn > 0 THEN maxIn ELSE 256

\* C1: the accumulator and the returned list never hold more than M records,
\* M being maxRecords when positive and 256 otherwise
C1_AtMostMaxRecords == Len(results) <= C1_Cap /\ Len(returned) <= C1_Cap

\* a run with a non-positive maxRecords that returned 256 records
C1_Witness == pc = "exited" /\ maxIn <= 0 /\ exitCode = 0 /\ Len(returned) = 256

\* C2: when fetchEvents returns at the cap, every result handle a batch fetch
\* returned has been closed exactly once; with maxRecords = 4 and five handles
\* fetched, 4 records are returned and 5 result handles are closed
C2_AllBatchHandlesClosed ==
    (pc = "returned" /\ err = NoErr /\ Len(returned) = maxEvents)
        => /\ \A i \in 1..nextEvt : EventHandle(i) \notin openH
           /\ (maxEvents = 4 /\ nextEvt = 5) =>
                 Cardinality({h \in Range(closeLog) : h.kind = "event"}) = 5

\* C3: when rendering, parsing or formatting an event failed, no handle is open
\* at the moment fetchEvents has returned the error
C3_NoLeakOnEventFailure ==
    (pc \in {"returned", "exited"} /\ err \in EventErrors) => openH = {}

\* C4 as stated: every name not case-insensitively equal to Application, System
\* or Setup is rejected with zero native calls
C4_RejectsAllButExactNames ==
    (ToLower(logName) \notin {sApplication, sSystem, sSetup} /\ pc # "main")
        => /\ pc = "exited" /\ err = "unsupported log" /\ exitCode = 2
           /\ calls = NoCalls /\ openH = {}

\* C4 amended: every name that, with surrounding white space trimmed, is neither
\* empty nor case-insensitively equal to Application, System or Setup is
\* rejected with exit status 2 and zero native calls
C4_RejectsUnsupportedNames ==
    (ToLower(TrimSpace(logName)) \notin {sApplication, sSystem, sSetup, <<>>} /\ pc # "main")
        => /\ pc = "exited" /\ err = "unsupported log" /\ exitCode = 2
           /\ calls = NoCalls /\ openH = {}

\* an unsupported name was rejected
C4_Witness ==
    /\ pc = "exited" /\ err = "unsupported log"
    /\ logName = <<"s","e","c","u","r","i","t","y">>

MetaOpened == {h \in openH \cup Range(closeLog) : h.kind = "meta"}

\* C5: within one run at most one metadata handle is ever opened per provider
\* name, every successful open is for a name not cached, and a get for a cached
\* name makes no native open call and leaves the map as it is
C5_OneOpenPerProvider ==
    /\ [](/\ \A h1, h2 \in MetaOpened : h1.name = h2.name => h1 = h2
          /\ Cardinality(MetaOpened) = nextMeta
          /\ \A h1, h2 \in openH : (h1.kind = "meta" /\ h1.name = h2.name) => h1 = h2)
    /\ [][(pc = "range" /\ EventXML(Head(pending), period).Provider \in DOMAIN cache
              /\ pc' # "exit")
            => /\ calls'.EvtOpenPublisherMetadata = calls.EvtOpenPublisherMetadata
               /\ cache' = cache
               /\ results'[Len(results')].Source = EventXML(Head(pending), period).Provider]_vars

\* two records of the same provider were produced with a single open call
C5_Witness ==
    /\ Len(results) >= 3
    /\ results[1].Source = results[3].Source
    /\ calls.EvtOpenPublisherMetadata = Cardinality({results[i].Source : i \in 1..Len(results)})

InCritical(w) ==
    IF w = Closer THEN wpc[w] = "iter"
    ELSE wpc[w] \in {"check", "open", "insert", "unlock"}

Served(w) == wpc[w] = "done" /\ wres[w].err = NoErr

\* C6: workers sharing one cache never run the check-then-insert sequence or
\* close at the same time, at most one metadata handle per provider name is
\* open at any time, and as long as close has not run every worker that get
\* served with the same name holds the one handle opened for that name
C6_GetSerialized ==
    /\ Cardinality({w \in Procs : InCritical(w)}) <= 1
    /\ \A w \in Procs : InCritical(w) => mu = w
    /\ \A h1, h2 \in openH : (h1.kind = "meta" /\ h1.name = h2.name) => h1 = h2
    /\ wpc[Closer] = "idle" =>
          \A w1, w2 \in Workers :
              (Served(w1) /\ Served(w2) /\ wprov[w1] = wprov[w2])
                  => /\ wres[w1].h = wres[w2].h
                     /\ wres[w1].h \in openH
                     /\ {h \in MetaOpened : h.name = wprov[w1]} = {wres[w1].h}

\* every worker asked for the same provider and got the one handle opened
C6_Witness ==
    /\ pc = "cache" /\ wpc[Closer] = "idle"
    /\ \A w \in Workers : Served(w) /\ wprov[w] = Providers[1]
                              /\ wres[w].h = MetaHandle(1, Providers[1])
    /\ calls.EvtOpenPublisherMetadata = 1

\* C7: after a successful EvtQuery the query handle stays open until
\* fetchEvents exits and is closed exactly once on every exit path; when
\* EvtQuery fails the error is returned with no session handle and no EvtNext
C7_SessionClosedOnce ==
    /\ (pc \in {"loop", "range", "exit"})
          => (hQuery = QueryHandle /\ QueryHandle \in openH /\ CloseCount(QueryHandle) = 0)
    /\ (pc \in {"returned", "exited"} /\ hQuery # NoHandle)
          => (QueryHandle \notin openH /\ CloseCount(QueryHandle) = 1)
    /\ (pc \in {"returned", "exited"} /\ hQuery = NoHandle /\ calls.EvtQuery = 1)
          => (err = "EvtQuery" /\ returned = <<>> /\ QueryHandle \notin openH
              /\ calls.EvtNext = 0 /\ CloseCount(QueryHandle) = 0)

\* fetchEvents returned a render failure with the session closed
C7_Witness ==
    /\ pc = "returned" /\ err = "EvtRender" /\ Len(results) >= 1
    /\ CloseCount(QueryHandle) = 1

\* C8: once EvtNext reported ERROR_NO_MORE_ITEMS the loop is left, the error
\* stays nil, the accumulated records are what is returned, and EvtNext is not
\* called again
C8_ExhaustionStops ==
    /\ [](exhausted =>
            /\ pc \in {"exit", "returned", "exited"}
            /\ err = NoErr
            /\ (pc \in {"returned", "exited"} /\ ~panicked) => returned = results)
    /\ [][exhausted => (calls'.EvtNext = calls.EvtNext /\ results' = results)]_vars

\* a run ended by exhaustion returned its records
C8_Witness ==
    /\ pc = "exited" /\ exhausted /\ exitCode = 0
    /\ Len(returned) = 2 /\ Len(returned) < maxEvents

\* C9: a failure other than exhaustion ends the run: the first error is the one
\* returned, with no records, the accumulator is not extended, and no fetch,
\* render, open or format call follows it
C9_FailureIsFatal ==
    /\ []((pc \in {"returned", "exited"} /\ err \in RunErrors)
             => (returned = <<>> /\ (pc = "exited" => exitCode = 2)))
    /\ [](err \in RunErrors => pc \in {"exit", "returned", "exited"})
    /\ [][err # NoErr
            => /\ err' = err
               /\ results' = results
               /\ calls'.EvtNext = calls.EvtNext
               /\ calls'.EvtRender = calls.EvtRender
               /\ calls'.EvtFormatMessage = calls.EvtFormatMessage
               /\ calls'.EvtOpenPublisherMetadata = calls.EvtOpenPublisherMetadata]_vars

\* a failure in the middle of a run was reported with no records
C9_Witness ==
    /\ pc = "exited" /\ err = "parse time" /\ Len(results) >= 2
    /\ returned = <<>> /\ exitCode = 2

----------------------------------------------------------------------------
(* Claims about mapLevel *)

\* C10: mapLevel maps 2 to Error, 3 to Warning, 4 to Information and every
\* other unsigned 32-bit level to Unknown
C10_MapLevelTotal ==
    pc = "mapped" =>
        /\ level = 2 => levelText = "Error"
        /\ level = 3 => levelText = "Warning"
        /\ level = 4 => levelText = "Information"
        /\ level \notin {2, 3, 4} => levelText = "Unknown"
        /\ levelText \in {"Error", "Warning", "Information", "Unknown"}

\* a level outside the table was mapped
C10_Witness == pc = "mapped" /\ level = 99 /\ levelText = "Unknown"

----------------------------------------------------------------------------
(* Claims about the normalisation of the arguments and the query expression *)

\* fetchEvents has normalised its arguments and built the query
Started ==
    \/ pc \in {"loop", "range", "exit", "returned"}
    \/ pc = "exited" /\ err # "unsupported log"

\* C11: fetchEvents replaces every non-positive lookbackMinutes by 10 and
\* every non-positive maxRecords by 256 before the query is built and the
\* loop starts, and leaves every positive value unchanged
C11_DefaultsSubstituted ==
    Started =>
        /\ minutes = (IF minutesIn <= 0 THEN 10 ELSE minutesIn)
        /\ maxEvents = (IF maxIn <= 0 THEN 256 ELSE maxIn)
        /\ minutes > 0 /\ maxEvents > 0
        /\ calls.EvtNext > 0 => Len(results) <= maxEvents

\* the loop runs with the default cap substituted for a cap of 0
C11_Witness ==
    pc = "loop" /\ maxIn = 0 /\ maxEvents = 256 /\ minutes = 5 /\ Len(results) > 16

\* C12: the query expression has exactly the wire form for the trimmed
\* provider and for ms, and ms is the normalised lookback times 60000, a
\* positive number, for every positive lookback of the int range
C12_QueryWireForm ==
    Started =>
        /\ queryStr = (IF TrimSpace(provider) = <<>>
                       THEN qTimeOnly \o Digits(ms) \o qClose
                       ELSE qProvider \o Quote(TrimSpace(provider)) \o qAndTime
                                \o Digits(ms) \o qClose)
        /\ ms > 0
        /\ ms % 60000 = 0
        /\ ms \div 60000 = minutes

\* the end of the string literal that starts at position start of the
\* expression q: the filter language is XPath 1.0, whose literals run to the
\* next quote character and know no escape
LiteralEnd(q, start) ==
    IF \E i \in (start + 1)..Len(q) : q[i] = q[start]
    THEN CHOOSE i \in (start + 1)..Len(q) :
            /\ q[i] = q[start]
            /\ \A j \in (start + 1)..(i - 1) : q[j] # q[start]
    ELSE 0

\* C13: with a provider filter the value occupies one quoted literal of the
\* @Name predicate: the literal that opens after @Name= closes where the
\* quoted provider ends, and what follows is the time predicate alone
C13_ProviderLiteralIntact ==
    (Started /\ TrimSpace(provider) # <<>>) =>
        LET start == Len(qProvider) + 1
            end == LiteralEnd(queryStr, start)
        IN
        /\ queryStr[start] = "\""
        /\ end = Len(qProvider) + Len(Quote(TrimSpace(provider)))
        /\ SubSeq(queryStr, end + 1, Len(queryStr)) = qAndTime \o Digits(ms) \o qClose

----------------------------------------------------------------------------
(* Claims about the command-line tools *)

Remediation == tool.name \in {"update", "iis"}

\* the audit records written to stdout
Audits == {stdout[i].rec : i \in 1..Len(stdout)}

\* the answer read is yes or y once trimmed and lower-cased
Accepting(a) ==
    /\ a.err \in {"nil", "EOF"}
    /\ TrimSpace(ToLower(a.line)) \in {<<"y","e","s">>, <<"y">>}

\* C14: the remediation tools run a command only after askApproval has read
\* yes or y; every audit record with executed=true has approved=true; any
\* other answer (no, an empty line, end-of-file, a failing read) ends the run
\* with no command run and an audit record with executed=false
C14_ApprovalGatesExecution ==
    Remediation =>
        /\ (ran # <<>> \/ cpc = "execute") => (Accepting(answer) /\ result.Approved)
        /\ \A r \in Audits : r.Executed => r.Approved
        /\ (cpc = "exited" /\ answer # NoAnswer /\ ~Accepting(answer)) =>
              /\ ran = <<>>
              /\ Len(stdout) = 1
              /\ ~stdout[1].rec.Executed

\* iisreset ran after the operator typed " YES " on the console
C14_Witness ==
    /\ tool.name = "iis" /\ cpc = "exited" /\ Len(ran) = 1
    /\ answer.err = "nil" /\ Len(answer.line) = 7
    /\ Len(stdout) = 1 /\ stdout[1].ok /\ stdout[1].rec.Executed

\* the three command specs the documentation whitelists
C15_Whitelist ==
    {[name |-> "dism_restorehealth", exe |-> "dism.exe",
      args |-> <<"/online", "/cleanup-image", "/restorehealth">>],
     [name |-> "sfc_scannow", exe |-> "sfc.exe", args |-> <<"/scannow">>],
     [name |-> "reset_update_cache", exe |-> "powershell.exe",
      args |-> <<"-NoProfile", "-NonInteractive", "-Command",
                 "$ErrorActionPreference=\"Stop\"; Stop-Service ...; Rename-Item ...; Start-Service ...; Write-Output ...;">>]}

\* C15: every command remediate-update runs or proposes is one of the three
\* fixed command specs and is determined by its action name alone, so two
\* runs that select the same name run the same executable and arguments
C15_OnlyWhitelistedCommands ==
    tool.name = "update" =>
        /\ \A i \in 1..Len(ran) :
              /\ ran[i] \in C15_Whitelist
              /\ \A c \in C15_Whitelist : c.name = ran[i].name => c = ran[i]
              /\ result.Action = ran[i].name
        /\ cpc \in {"approve", "tools", "execute"} =>
              \E c \in C15_Whitelist :
                  result.Action = c.name /\ result.Command = joinCommand(c)

\* sfc /scannow ran for a document whose exact_command holds other text
C15_Witness ==
    /\ tool.name = "update" /\ cpc = "exited"
    /\ ran = <<[name |-> "sfc_scannow", exe |-> "sfc.exe", args |-> <<"/scannow">>]>>
    /\ triage.ExactCommand # <<>> /\ triage.RecommendedAction = <<>>

C17_NoopIsSuccess ==
    tool.name = "update" =>
        /\ ~result.Executed => result.ExitCode = 0
        /\ \A r \in Audits :
              /\ ~r.Executed => r.ExitCode = 0
              /\ r.ExitCode # 0 => (r.Executed /\ Len(ran) = 1 /\ r.Error # "")
        /\ (/\ cpc = "exited" /\ Len(stdout) = 1 /\ stdout[1].ok
            /\ result.Error \in {"not applicable", "not approved"})
              => status = 0

\* the operator answered no and the run ended with status 0
C17_Witness ==
    /\ tool.name = "update" /\ cpc = "exited" /\ status = 0
    /\ answer.line = <<"n","o","\n">>
    /\ Len(stdout) = 1 /\ stdout[1].ok
    /\ ~stdout[1].rec.Executed /\ stdout[1].rec.ExitCode = 0
    /\ stdout[1].rec.Error = "not approved"

\* C18: each of the three tools ends with status 2 when stdin is empty,
\* exceeds the byte limit or is not valid JSON (main never got a document
\* that is one JSON value), and with status 0 only otherwise
C18_BadInputExitsTwo ==
    cpc = "exited" =>
        /\ data.kind # "object" => status = 2
        /\ status = 0 => data.kind = "object"

----------------------------------------------------------------------------
(* Claims about panics and termination of the collector *)

\* C19: a collection run never panics: for every outcome of the native
\* calls fetchEvents returns records or an error, and the process never
\* ends through a run-time panic
C19_NeverPanics ==
    /\ ~panicked
    /\ pc = "exited" => (exitCode = 0 \/ err # NoErr)

\* C20: fetchEvents always terminates: whatever the subsystem answers, the
\* batch loop is eventually left and the run ends
C20_Terminates == <>(pc = "exited")

----------------------------------------------------------------------------
\* C21: the accumulator of fetchEvents is at every moment the records of the
\* first Len(results) handles the subsystem handed out, in hand-out order
\* (handle number i is the i-th handle of the concatenated batches): nothing
\* reordered, duplicated or skipped; on success the returned list is that
\* accumulator, and it is shorter than everything handed out only when the
\* cap cut it, otherwise the log was exhausted.
C21_ReturnedIsPrefix ==
    /\ Len(results) <= nextEvt
    /\ \A i \in 1..Len(results) :
          results[i] = [EventID |-> i,
                        Level |-> mapLevel(EventXML(EventHandle(i), period).Level),
                        Source |-> EventXML(EventHandle(i), period).Provider]
    /\ (pc \in {"returned", "exited"} /\ err = NoErr /\ ~panicked)
          => /\ returned = results
             /\ Len(returned) < nextEvt => Len(returned) = maxEvents
             /\ Len(returned) < maxEvents => exhausted

C21_Witness ==
    /\ pc = "returned" /\ err = NoErr
    /\ Len(returned) = 4 /\ maxEvents = 4 /\ nextEvt > 4 /\ calls.EvtNext >= 2

----------------------------------------------------------------------------
\* what C22 says of one two-phase protocol: p is the probe's answer, fillOk
\* the fill call's, res what the function did
TwoPhase(p, fillOk, res) ==
    /\ (p.r = 0 /\ p.errno = "ERROR_INSUFFICIENT_BUFFER")
          => (~res.panic /\ res.n = 2 /\ res.size = p.used)
    /\ (p.r = 0 /\ p.errno # "ERROR_INSUFFICIENT_BUFFER")
          => (res.err # NoErr /\ res.n = 1 /\ ~res.text)
    /\ (res.n = 2 /\ ~fillOk) => (res.err # NoErr /\ ~res.text)

\* C22: renderEventXML and formatMessage alike: a probe failing with
\* insufficient-buffer goes on to the fill call with a buffer of the size
\* the probe reported, a probe failing otherwise returns an error without
\* a fill call, and a failing fill call returns an error and no text.
C22_TwoPhaseProtocol ==
    /\ ppc \in {"format", "done"} => TwoPhase(outcome.rProbe, outcome.rFill, xmlRes)
    /\ ppc = "done" => TwoPhase(outcome.fProbe, outcome.fFill, msgRes)

----------------------------------------------------------------------------
\* the result handles for which parseEvent has returned: handles are parsed
\* in hand-out order, each one appends a record or ends the run with an error
ParsedCount == Len(results) + (IF err \in RunErrors \ {"EvtNext"} THEN 1 ELSE 0)

\* the closes of result handles, in call order
EventCloses == SelectSeq(closeLog, LAMBDA h : h.kind = "event")

\* C23: the result handles for which parseEvent has returned (with a record
\* or with an error) are, at every moment, exactly the result handles
\* closed so far, each closed once and in parse order, so each is closed
\* before the next is parsed; and a native render or format call is only
\* ever made on a result handle that is open and has never been closed.
C23_ParsedHandleClosedOnce ==
    /\ [](/\ EventCloses = [i \in 1..ParsedCount |-> EventHandle(i)]
          /\ \A i \in 1..ParsedCount : EventHandle(i) \notin openH)
    /\ [][(calls'.EvtRender > calls.EvtRender
             \/ calls'.EvtFormatMessage > calls.EvtFormatMessage)
            => (/\ pending # <<>>
                /\ Head(pending) \in openH
                /\ CloseCount(Head(pending)) = 0)]_vars

C23_Witness ==
    /\ pc = "returned" /\ err = "EvtFormatMessage" /\ Len(results) = 2
    /\ CloseCount(EventHandle(2)) = 1 /\ CloseCount(EventHandle(3)) = 1
    /\ EventHandle(4) \in openH

----------------------------------------------------------------------------
\* the positions of closeLog at which a metadata handle was closed
MetaCloses == {i \in 1..Len(closeLog) : closeLog[i].kind = "meta"}

\* C24: while fetchEvents runs with an open session publisherCache.close has
\* not run (no metadata handle has been closed and every cached handle is
\* open); once fetchEvents has returned or unwound, on success or error, the
\* cache is empty, every metadata handle handed out was closed exactly once
\* and none is open, and all of these closes precede the close of the
\* session handle; and every EvtFormatMessage call is made before close ran,
\* with every cached handle still open.
C24_CacheClosedBeforeSession ==
    /\ []((pc \in {"loop", "range", "exit"})
            => (MetaCloses = {} /\ \A x \in DOMAIN cache : cache[x] \in openH))
    /\ []((pc \in {"returned", "exited"} /\ hQuery # NoHandle)
            => /\ cache = EmptyCache
               /\ \A h \in openH : h.kind # "meta"
               /\ Cardinality(MetaCloses) = nextMeta
               /\ \A i, j \in MetaCloses : closeLog[i] = closeLog[j] => i = j
               /\ \A i \in MetaCloses : \A j \in 1..Len(closeLog) :
                     closeLog[j] = QueryHandle => i < j)
    /\ [][calls'.EvtFormatMessage > calls.EvtFormatMessage
            => (/\ MetaCloses = {}
                /\ cache' # EmptyCache
                /\ \A x \in DOMAIN cache' : cache'[x] \in openH')]_vars

C24_Witness ==
    /\ pc = "returned" /\ err = "parse XML" /\ nextMeta = 2
    /\ Cardinality(MetaCloses) = 2
    /\ closeLog[Len(closeLog)] = QueryHandle

----------------------------------------------------------------------------
\* C25: every native EvtClose call is made on a handle that is open: closing
\* the zero handle or a session handle that was closed before makes no
\* native call, and a second publisherCache.close closes nothing.
C25_CloseIdempotent ==
    [][\A i \in (Len(closeLog) + 1)..Len(closeLog') : closeLog'[i] \in openH]_vars

----------------------------------------------------------------------------
\* TRUE when one of the send attempts made so far succeeded
Delivered == \E k \in 1..Len(sends) : sends[k]

\* C26: SendWithRetry makes at most maxRetry+1 attempts, a successful attempt
\* is the last one made, MarkSent is called at most once and only after a
\* successful attempt, and nothing but the enqueue and a MarkSent that
\* follows a successful attempt changes the queue, so the entry is intact
\* when every attempt failed.
C26_SendWithRetry ==
    /\ [](/\ Len(sends) <= maxRetry + 1
          /\ \A k \in 1..(Len(sends) - 1) : ~sends[k]
          /\ marks <= 1
          /\ marks = 1 => Delivered
          /\ (spc = "done" /\ Delivered) => marks = 1)
    /\ [][queue' # queue => (apc = "enqueue" \/ (Delivered /\ marks' = marks + 1))]_vars

C26_Witness ==
    /\ spc = "done" /\ maxRetry = agentMaxRetry /\ Len(sends) = agentMaxRetry + 1
    /\ ~Delivered /\ queue = {"r1"} /\ marks = 0

----------------------------------------------------------------------------
\* C27: the request BuildPayload returns serializes to at most maxBytes
\* bytes, and no size check of trimToSize measures more than the check
\* before it (a trimming step never makes the request larger).
C27_FitsBudget ==
    /\ tpc = "done" => jsonLen(req) <= maxBytes
    /\ \A k \in 1..(Len(measured) - 1) : measured[k + 1] <= measured[k]

\* the pairs (recentLimit, messageLimit) in the order C30 gives them
LimitSteps == << <<50, 512>>, <<40, 256>>, <<30, 128>>, <<20, 64>>, <<10, 64>>, <<0, 64>> >>

\* C30: trimToSize returns for every request and budget; its size checks are
\* made with the limits (50,512), (40,256), (30,128), (20,64), (10,64),
\* (0,64) in that order, so at most six of them.
C30_TrimTerminates ==
    /\ [](/\ Len(checks) <= Len(LimitSteps)
          /\ \A k \in 1..Len(checks) : checks[k] = LimitSteps[k])
    /\ <>(tpc = "done")

C30_Witness ==
    /\ tpc = "done" /\ maxBytes = 0 /\ Len(checks) = 6
    /\ recentLimit = 0 /\ messageLimit = 64 /\ measured[6] > maxBytes

----------------------------------------------------------------------------
====
